---- MODULE Spec2Model ----
(***************************************************************************)
(* A model of the travel-search tool server: the position normaliser, the  *)
(* validators, the location resolution service and the position-id step of *)
(* the search service.                                                     *)
(*                                                                         *)
(* Python values are modelled as tagged records (PyVal).  Text on which    *)
(* the code works character by character (terms, positionId strings, ISO   *)
(* dates) is a tuple of one-character strings; text that is only compared  *)
(* or passed on (names, types) is a TLA+ string.                           *)
(***************************************************************************)
EXTENDS Integers, Sequences, FiniteSets, TLC

VARIABLES
    raw_positions,   \* normalize_positions: the argument
    norm_result,     \* normalize_positions: what the call produced
    pc,              \* location/search invocation: where the coroutine stands
    op,              \* the entry point that was invoked
    params,          \* the parameters of the invocation
    calls,           \* upstream GET requests issued so far, in order
    replies,         \* how each completed GET ended, in order: "ok" or "fail"
    resolve_calls,   \* calls of LocationService.resolve_positions so far
    origin_ac,       \* resolve_positions: origin_autocomplete
    dest_ac,         \* resolve_positions: dest_autocomplete
    outcome,         \* what the invocation returned or raised
    date_args,       \* validate_date_range: the arguments
    date_result,     \* validate_date_range: what the call produced
    found_ids,       \* search operation: its locals from_id, to_id
    http_attempts,   \* HTTP requests the upstream clients have sent so far
    raw_data,        \* shape_day_results: the argument
    shape_result,    \* shape_day_results: what the call produced
    t_pc,            \* trace_tool wrapper: where the invocation stands
    handler,         \* trace_tool wrapper: how the wrapped handler ends
    sink,            \* metrics sink: whether insert_one works, and the inserts it refused
    metrics,         \* records the metrics sink has stored, in order
    tool_outcome,    \* trace_tool wrapper: what the caller of the tool gets
    caught,          \* trace_tool wrapper: the exception its except clause holds
    rep_fn,          \* repeated normalisation: the normaliser applied
    rep_raw,         \* repeated normalisation: the raw payload object
    rep_out,         \* repeated normalisation: the outputs so far, in order
    s_pc,            \* main: where the process stands, from serving to shut down
    client_instance, \* singleton_factory: _client_instance (location lookups)
    discovery_client,\* singleton_factory: _discovery_client (searches)
    served,          \* main: tool invocations served so far
    swallowed        \* shutdown_clients: exceptions its except clauses swallowed

vars == <<raw_positions, norm_result, pc, op, params, calls, replies, resolve_calls,
          origin_ac, dest_ac, outcome, date_args, date_result, found_ids,
          http_attempts, raw_data, shape_result, t_pc, handler, sink, metrics,
          tool_outcome, caught, rep_fn, rep_raw, rep_out,
         s_pc, client_instance, discovery_client, served, swallowed>>

normVars == <<raw_positions, norm_result>>
locVars  == <<pc, op, params, calls, replies, resolve_calls, origin_ac, dest_ac, outcome>>
\* (searchVars below belong to the same invocation)
dateVars == <<date_args, date_result>>
searchVars == <<found_ids, http_attempts>>
shapeVars == <<raw_data, shape_result>>
traceVars == <<t_pc, handler, sink, metrics, tool_outcome, caught>>
repVars  == <<rep_fn, rep_raw, rep_out>>
shutVars == <<s_pc, client_instance, discovery_client, served, swallowed>>
restVars == <<normVars, dateVars, shapeVars, traceVars, repVars, shutVars>>

(***************************************************************************)
(* Bounds of the model.                                                    *)
(***************************************************************************)
MaxRaw  == 2     \* longest raw position list given to normalize_positions
MaxCand == 2     \* longest position list in an upstream autocomplete payload
MaxTerm == 2     \* longest autocomplete term tried

(***************************************************************************)
(* Python values.                                                          *)
(***************************************************************************)
PyAbsent  == [t |-> "absent", n |-> 0, s |-> "", cs |-> <<>>]
PyNone    == [t |-> "none",   n |-> 0, s |-> "", cs |-> <<>>]
PyInf     == [t |-> "inf",    n |-> 0, s |-> "", cs |-> <<>>]
PyInt(i)  == [t |-> "int",    n |-> i, s |-> "", cs |-> <<>>]
PyStr(x)  == [t |-> "str",    n |-> 0, s |-> x,  cs |-> <<>>]
PyText(c) == [t |-> "text",   n |-> 0, s |-> "", cs |-> c]
PyList(l) == [t |-> "list",   n |-> 0, s |-> "", cs |-> l]
\* float(cents): a float holding a whole number
PyFloat(i) == [t |-> "float", n |-> i, s |-> "", cs |-> <<>>]
\* float(cents) / 100: a float, kept as its number of hundredths
PyCents(i) == [t |-> "cents", n |-> i, s |-> "", cs |-> <<>>]

\* dict.get(key): a missing key reads as None
PyGet(v) == IF v.t = "absent" THEN PyNone ELSE v

\* Python truthiness of a value
Truthy(v) ==
    CASE v.t = "absent" -> FALSE
      [] v.t = "none"   -> FALSE
      [] v.t = "int"    -> v.n # 0
      [] v.t = "str"    -> v.s # ""
      [] v.t = "text"   -> v.cs # <<>>
      [] v.t = "list"   -> v.cs # <<>>
      [] v.t = "float"  -> v.n # 0
      [] v.t = "cents"  -> v.n # 0
      [] OTHER          -> TRUE

\* a or b
PyOr(a, b) == IF Truthy(a) THEN a ELSE b

IsPyStr(v) == v.t \in {"str", "text"}

(***************************************************************************)
(* Text helpers: str.strip() and int(str).                                 *)
(***************************************************************************)
Whitespace == {" ", "\t"}

RECURSIVE lstrip(_)
lstrip(cs) ==
    IF cs # <<>> /\ Head(cs) \in Whitespace THEN lstrip(Tail(cs)) ELSE cs

RECURSIVE rstrip(_)
rstrip(cs) ==
    IF cs # <<>> /\ cs[Len(cs)] \in Whitespace
    THEN rstrip(SubSeq(cs, 1, Len(cs) - 1))
    ELSE cs

strip(cs) == rstrip(lstrip(cs))

Digits == {"0", "1", "2", "3", "4", "5", "6", "7", "8", "9"}

DigitVal(c) ==
    CASE c = "0" -> 0 [] c = "1" -> 1 [] c = "2" -> 2 [] c = "3" -> 3
      [] c = "4" -> 4 [] c = "5" -> 5 [] c = "6" -> 6 [] c = "7" -> 7
      [] c = "8" -> 8 [] c = "9" -> 9

AllDigits(cs) == cs # <<>> /\ \A i \in 1..Len(cs) : cs[i] \in Digits

RECURSIVE DecimalValue(_)
DecimalValue(cs) ==
    IF cs = <<>> THEN 0
    ELSE 10 * DecimalValue(SubSeq(cs, 1, Len(cs) - 1)) + DigitVal(cs[Len(cs)])

\* int(text) on the stripped text: an optional sign, then decimal digits
IntOfDigits(negative, digits) ==
    IF AllDigits(digits)
    THEN [err |-> "", n |-> IF negative THEN 0 - DecimalValue(digits)
                            ELSE DecimalValue(digits)]
    ELSE [err |-> "ValueError", n |-> 0]

IntOfText(body) ==
    IF body # <<>> /\ Head(body) \in {"-", "+"}
    THEN IntOfDigits(Head(body) = "-", Tail(body))
    ELSE IntOfDigits(FALSE, body)

\* int(x): [err |-> "" | "TypeError" | "ValueError" | "OverflowError", n |-> value]
PyIntOf(v) ==
    CASE v.t = "int"  -> [err |-> "", n |-> v.n]
      [] v.t = "inf"  -> [err |-> "OverflowError", n |-> 0]
      [] v.t = "text" -> IntOfText(strip(v.cs))
      [] v.t = "str"  -> [err |-> "ValueError", n |-> 0]   \* a word, never a numeral
      [] OTHER        -> [err |-> "TypeError", n |-> 0]

(***************************************************************************)
(* schemas/models.py: Position.  The constructor validates the field       *)
(* types: id int, name str, type str, country_code Optional[str].          *)
(***************************************************************************)
NoPosition == [id |-> 0, name |-> "", type |-> "", country_code |-> PyAbsent]

Position(id, name, type, countryCode) ==
    IF IsPyStr(name) /\ IsPyStr(type) /\ (countryCode.t = "none" \/ IsPyStr(countryCode))
    THEN [err |-> "",
          pos |-> [id |-> id, name |-> name.s, type |-> type.s,
                   country_code |-> countryCode]]
    ELSE [err |-> "ValidationError", pos |-> NoPosition]

(***************************************************************************)
(* utils/normalizer.py: normalize_positions.  A raw record is a dict of    *)
(* which the model keeps the keys the code reads; extra says whether the   *)
(* dict holds any other key.                                               *)
(***************************************************************************)
RawRecord(pid, displayName, defaultName, name, type, countryCode, extra) ==
    [positionId |-> pid, displayName |-> displayName, defaultName |-> defaultName,
     name |-> name, type |-> type, countryCode |-> countryCode, extra |-> extra]

\* not pos
IsEmptyDict(pos) ==
    /\ pos.positionId.t = "absent" /\ pos.displayName.t = "absent"
    /\ pos.defaultName.t = "absent" /\ pos.name.t = "absent"
    /\ pos.type.t = "absent" /\ pos.countryCode.t = "absent"
    /\ ~pos.extra

\* One pass of the loop body: [act |-> "skip" | "append" | "raise", err, pos].
\* NormalizeOne is lines 21-32, NormalizeNamed 34-43, NormalizeParsed 44-54,
\* NormalizeMade 61-68.
Skip == [act |-> "skip", err |-> "", pos |-> NoPosition]

NormalizeMade(made) ==
    IF made.err # ""
    THEN [act |-> "raise", err |-> made.err, pos |-> NoPosition]
    ELSE [act |-> "append", err |-> "", pos |-> made.pos]

NormalizeParsed(pos, name, parsed) ==
    IF parsed.err \in {"TypeError", "ValueError"} THEN Skip
    ELSE IF parsed.err # ""
    THEN [act |-> "raise", err |-> parsed.err, pos |-> NoPosition]
    ELSE NormalizeMade(Position(parsed.n, name,
                                IF pos.type.t = "absent" THEN PyStr("unknown")
                                ELSE pos.type,
                                PyGet(pos.countryCode)))

NormalizeNamed(pos, name) ==
    IF ~Truthy(name) THEN Skip
    ELSE NormalizeParsed(pos, name, PyIntOf(pos.positionId))

NormalizeOne(pos) ==
    IF IsEmptyDict(pos) THEN Skip
    ELSE IF pos.positionId.t = "absent" THEN Skip
    ELSE NormalizeNamed(pos, PyOr(PyOr(PyGet(pos.displayName), PyGet(pos.defaultName)),
                                  PyGet(pos.name)))

\* The loop of lines 20-68 from index idx on, r being the pass at idx
RECURSIVE NormalizeLoop(_, _, _, _)
NormalizeAt(raw, idx, positions, skipped_count, r) ==
    CASE r.act = "skip"   -> NormalizeLoop(raw, idx + 1, positions, skipped_count + 1)
      [] r.act = "append" -> NormalizeLoop(raw, idx + 1, Append(positions, r.pos),
                                           skipped_count)
      [] OTHER            -> [raised |-> r.err, positions |-> <<>>,
                              skipped |-> skipped_count]

NormalizeLoop(raw, idx, positions, skipped_count) ==
    IF idx > Len(raw)
    THEN [raised |-> "", positions |-> positions, skipped |-> skipped_count]
    ELSE NormalizeAt(raw, idx, positions, skipped_count, NormalizeOne(raw[idx]))

normalize_positions(raw) ==
    IF raw = <<>>
    THEN [raised |-> "", positions |-> <<>>, skipped |-> 0]
    ELSE NormalizeLoop(raw, 1, <<>>, 0)

(***************************************************************************)
(* Raw records tried: one per path of the loop body.                       *)
(***************************************************************************)
A == PyAbsent

RawSamples ==
    { RawRecord(A, A, A, A, A, A, FALSE),                                 \* {}
      RawRecord(A, A, A, PyStr("NoId"), A, A, FALSE),                     \* no positionId
      RawRecord(PyInt(7), A, A, A, PyStr("city"), A, FALSE),              \* no name
      RawRecord(PyText(<<"1", "2">>), PyStr("Paris"), A, A,
                PyStr("location"), PyStr("FR"), TRUE),
      RawRecord(PyInt(0), PyStr(""), PyStr("Lyon"), A, PyStr("city"), PyNone, FALSE),
      RawRecord(PyText(<<"a", "b", "c">>), A, A, PyStr("Bad"), A, A, FALSE),
      RawRecord(PyNone, A, A, PyStr("Nil"), A, A, FALSE),
      RawRecord(PyText(<<"-", "5">>), A, A, PyStr("Neg"), A, A, FALSE),
      RawRecord(PyInt(3), A, A, PyStr("NullType"), PyNone, A, FALSE),
      RawRecord(PyInf, A, A, PyStr("Inf"), A, A, FALSE),
      RawRecord(PyInt(4), PyInt(5), A, A, PyStr("city"), A, FALSE) }

SeqsUpTo(S, n) == UNION { [1..k -> S] : k \in 0..n }

Pending == [status |-> "pending", raised |-> "", positions |-> <<>>, skipped |-> 0]

(***************************************************************************)
(* utils/validator.py: the term validators.  Each returns the class of the *)
(* exception it raises, "" when it returns normally.                       *)
(***************************************************************************)
validate_autocomplete_params(term) ==
    IF strip(term) = <<>> THEN "ValueError"
    ELSE IF Len(term) < 2 THEN "ValueError"
    ELSE ""

validate_resolve_params(from_term, to_term) ==
    IF strip(from_term) = <<>> \/ strip(to_term) = <<>> THEN "ValueError" ELSE ""

(***************************************************************************)
(* utils/validator.py: validate_date_range.  datetime.fromisoformat is     *)
(* modelled on the calendar-date form YYYY-MM-DD: ten characters, digits   *)
(* around two hyphens, a month 1..12 and a day that the month has; the     *)
(* other texts tried (no digits, slashes, empty) raise ValueError.  Texts  *)
(* with a time part, which fromisoformat also reads, are not tried.  The   *)
(* date is its proleptic Gregorian ordinal, so that a difference of two    *)
(* dates is timedelta.days.                                                *)
(***************************************************************************)
IsLeap(y) == y % 4 = 0 /\ (y % 100 # 0 \/ y % 400 = 0)

DaysInMonth(y, m) ==
    CASE m \in {1, 3, 5, 7, 8, 10, 12} -> 31
      [] m \in {4, 6, 9, 11}           -> 30
      [] OTHER                         -> IF IsLeap(y) THEN 29 ELSE 28

RECURSIVE DaysBeforeMonth(_, _)
DaysBeforeMonth(y, m) ==
    IF m <= 1 THEN 0 ELSE DaysBeforeMonth(y, m - 1) + DaysInMonth(y, m - 1)

DaysBeforeYear(y) == (y - 1) * 365 + (y - 1) \div 4 - (y - 1) \div 100 + (y - 1) \div 400

Ordinal(y, m, d) == DaysBeforeYear(y) + DaysBeforeMonth(y, m) + d

IsoFields(y, m, d) ==
    IF y >= 1 /\ m \in 1..12 /\ d >= 1 /\ d <= DaysInMonth(y, m)
    THEN [err |-> "", ord |-> Ordinal(y, m, d)]
    ELSE [err |-> "ValueError", ord |-> 0]

fromisoformat(cs) ==
    IF /\ Len(cs) = 10
       /\ cs[5] = "-" /\ cs[8] = "-"
       /\ AllDigits(SubSeq(cs, 1, 4)) /\ AllDigits(SubSeq(cs, 6, 7))
       /\ AllDigits(SubSeq(cs, 9, 10))
    THEN IsoFields(DecimalValue(SubSeq(cs, 1, 4)), DecimalValue(SubSeq(cs, 6, 7)),
                   DecimalValue(SubSeq(cs, 9, 10)))
    ELSE [err |-> "ValueError", ord |-> 0]

\* core/exceptions.py: InvalidInputError(message, hint) sets error_type "bad_input"
InvalidInputError(message, hint) ==
    [err |-> "InvalidInputError", error_type |-> "bad_input", message |-> message,
     hint |-> hint]

Returned == [err |-> "", error_type |-> "", message |-> "", hint |-> ""]

\* DateRangeCheck with >= for >: a range of exactly max_days is refused (the
\* slip C10 rules out)
DateRangeCheck_Inclusive(start_date, end_date, max_days) ==
    IF start_date.err # "" \/ end_date.err # ""
    THEN InvalidInputError("Invalid date format. Use YYYY-MM-DD.", "")
    ELSE IF end_date.ord - start_date.ord >= max_days
    THEN InvalidInputError("Date range exceeds the maximum of max_days days.",
                           "Please provide a smaller range between date_start and date_end.")
    ELSE Returned

DateRangeCheck(start_date, end_date, max_days) ==
    IF start_date.err # "" \/ end_date.err # ""
    THEN InvalidInputError("Invalid date format. Use YYYY-MM-DD.", "")
    ELSE IF end_date.ord - start_date.ord > max_days
    THEN InvalidInputError("Date range exceeds the maximum of max_days days.",
                           "Please provide a smaller range between date_start and date_end.")
    ELSE Returned

validate_date_range(start_str, end_str, max_days) ==
    DateRangeCheck(fromisoformat(start_str), fromisoformat(end_str), max_days)

NoDate == [start |-> <<>>, end |-> <<>>, max_days |-> 0]
DatePending == [status |-> "pending"] @@ Returned

(***************************************************************************)
(* http/discovery_client.py: what one GET can produce.  status "fail" is   *)
(* the UpstreamApiError of _make_request; otherwise the decoded JSON: a    *)
(* list, a dict (of which the model keeps the five keys the service reads) *)
(* or any other value.                                                     *)
(***************************************************************************)
UpResponse(status, kind, list, positions, results, data, items, locations) ==
    [status |-> status, kind |-> kind, list |-> list, positions |-> positions,
     results |-> results, data |-> data, items |-> items, locations |-> locations]

UpFail     == UpResponse("fail", "other", <<>>, <<>>, <<>>, <<>>, <<>>, <<>>)
UpOther    == UpResponse("ok", "other", <<>>, <<>>, <<>>, <<>>, <<>>, <<>>)
UpList(l)  == UpResponse("ok", "list", l, <<>>, <<>>, <<>>, <<>>, <<>>)
UpDict(positions, results, data, items, locations) ==
    UpResponse("ok", "dict", <<>>, positions, results, data, items, locations)

(***************************************************************************)
(* services/position_service.py: LocationService.                          *)
(***************************************************************************)
None == [some |-> FALSE, pos |-> NoPosition]
Some(p) == [some |-> TRUE, pos |-> p]

\* positions_data: the raw list taken out of the response (lines 63-84)
ExtractPositions(raw) ==
    CASE raw.kind = "list" -> raw.list
      [] raw.kind = "dict" ->
           IF raw.positions # <<>> THEN raw.positions
           ELSE IF raw.results # <<>> THEN raw.results
           ELSE IF raw.data # <<>> THEN raw.data
           ELSE IF raw.items # <<>> THEN raw.items
           ELSE IF raw.locations # <<>> THEN raw.locations
           ELSE <<>>
      [] OTHER -> <<>>

\* next((p for p in candidates if p.type == "location"),
\*      candidates[0] if candidates else None)
FirstLocation(candidates, locs) ==
    IF locs # {}
    THEN Some(candidates[CHOOSE i \in locs : \A j \in locs : i <= j])
    ELSE IF candidates # <<>> THEN Some(candidates[1]) ELSE None

BestOf(candidates) ==
    FirstLocation(candidates,
                  { i \in 1..Len(candidates) : candidates[i].type = "location" })

\* AlternativesOf with the filter dropped: the best guess stays among the
\* alternatives (the slip C3 rules out)
AlternativesOf_KeepAll(candidates, best_guess) == candidates

\* [p for p in candidates if not best_guess or p.id != best_guess.id]
AlternativesOf(candidates, best_guess) ==
    LET Keep(p) == ~best_guess.some \/ p.id # best_guess.pos.id
    IN  SelectSeq(candidates, Keep)

NoAutocomplete == [err |-> "", best_guess |-> None, alternatives |-> <<>>,
                   candidates |-> <<>>]

\* positions_autocomplete from the decoded response on (lines 50-113); candidates
\* is the local list, kept beside the response fields for the properties.
AutocompleteResponse(candidates, best_guess) ==
    [err |-> "", best_guess |-> best_guess,
     alternatives |-> AlternativesOf(candidates, best_guess),
     candidates |-> candidates]

AutocompleteSelect(normalized) ==
    IF normalized.raised # ""
    THEN [NoAutocomplete EXCEPT !.err = normalized.raised]
    ELSE AutocompleteResponse(normalized.positions, BestOf(normalized.positions))

AutocompleteFinish(raw) == AutocompleteSelect(normalize_positions(ExtractPositions(raw)))

\* [best_guess] if best_guess else [] + alternatives
CandidatesOf(ac) ==
    (IF ac.best_guess.some THEN <<ac.best_guess.pos>> ELSE <<>>) \o ac.alternatives

ResolvedPositionInfo(user_term, best_match, ranked_candidates) ==
    [user_term |-> user_term, best_match |-> best_match,
     ranked_candidates |-> ranked_candidates]

\* SuggestedId written "best.id or None": the id 0 reads as no id (the slip C7
\* rules out)
SuggestedId_Falsy(best) ==
    IF best.some /\ best.pos.id # 0 THEN PyInt(best.pos.id) ELSE PyNone

\* origin_best.id if origin_best else None (lines 224-225)
SuggestedId(best) == IF best.some THEN PyInt(best.pos.id) ELSE PyNone

\* ResolvedSide with the best match taken from the end of the candidates (the
\* slip C29 rules out)
ResolvedSide_LastCandidate(user_term, candidates) ==
    ResolvedPositionInfo(user_term,
                         IF candidates # <<>> THEN Some(candidates[Len(candidates)])
                         ELSE None,
                         candidates)

\* One side: its best match chosen among its candidates (lines 155-158, 189-192)
ResolvedSide(user_term, candidates) ==
    ResolvedPositionInfo(user_term, BestOf(candidates), candidates)

\* The response assembled at the end of resolve_positions (lines 212-227)
ResolvePositionsResponse(origin, destination) ==
    [origin      |-> origin,
     destination |-> destination,
     suggestion  |-> [from_id |-> SuggestedId(origin.best_match),
                      to_id   |-> SuggestedId(destination.best_match)]]

\* resolve_positions from the two autocomplete responses on (lines 149-227)
ResolveResponse(from_term, to_term, origin_autocomplete, dest_autocomplete) ==
    ResolvePositionsResponse(ResolvedSide(from_term, CandidatesOf(origin_autocomplete)),
                             ResolvedSide(to_term, CandidatesOf(dest_autocomplete)))

NoResolved ==
    [origin      |-> ResolvedPositionInfo(<<>>, None, <<>>),
     destination |-> ResolvedPositionInfo(<<>>, None, <<>>),
     suggestion  |-> [from_id |-> PyNone, to_id |-> PyNone]]

NoIds == [from_id |-> PyNone, to_id |-> PyNone]

(***************************************************************************)
(* One invocation of the location service or of _ensure_position_ids, cut  *)
(* at its awaits of the upstream client.                                   *)
(***************************************************************************)
\* The response of a search operation (schemas/models.py lines 132-154); each
\* operation fills the fields its response class has.  A note or insight is
\* kept as the sentence chosen and the values formatted into it.
Note(text, args, by_mode) == [text |-> text, args |-> args, by_mode |-> by_mode]

NoNote == Note("", <<>>, <<>>)

NoResponse == [resolved_from_id |-> PyNone, resolved_to_id |-> PyNone,
               results |-> <<>>, calendar |-> <<>>, summary |-> <<>>,
               note |-> NoNote, insight |-> NoNote]

SearchOps == {"search_day_results", "search_calendar_prices",
              "search_cheapest_summary", "search_fastest_summary"}

\* The entry points that run _ensure_position_ids
EnsureEntries == {"ensure"} \cup SearchOps

\* core/config.py: the endpoint setting each search operation reads
EndpointOf(entry) ==
    CASE entry = "search_day_results"      -> "SEARCH_DAY_RESULTS_ENDPOINT"
      [] entry = "search_calendar_prices"  -> "SEARCH_CALENDAR_PRICES_ENDPOINT"
      [] entry = "search_cheapest_summary" -> "DISCOVERY_CHEAPEST_SUMMARY_ENDPOINT"
      [] entry = "search_fastest_summary"  -> "DISCOVERY_FASTEST_SUMMARY_ENDPOINT"

NoParams == [term |-> <<>>, from_term |-> PyNone, to_term |-> PyNone,
             from_id |-> PyNone, to_id |-> PyNone, date_start |-> <<>>, date_end |-> <<>>]

\* outcome: kind "returned" with the value (ac, resolved or ids by entry point),
\* or kind "raised" with the exception class err, the exception it was raised
\* from (cause) and the stage that raised it.  resolved also keeps the response
\* _ensure_position_ids got from resolve_positions before it raised.
NoOutcome == [kind |-> "none", err |-> "", cause |-> "", stage |-> "",
              ac |-> NoAutocomplete, resolved |-> NoResolved, ids |-> NoIds,
              response |-> NoResponse]

\* Raised without the except clause of _ensure_position_ids: the exception of
\* the resolution leaves the search operation as it is (the slip C30 rules out)
Raised_Unwrapped(entry, err, stage) ==
    [NoOutcome EXCEPT !.kind = "raised", !.err = err, !.stage = stage]

\* An exception leaving the entry point.  Inside _ensure_position_ids the
\* resolution runs in "try: ... except Exception as e: raise
\* LocationResolutionError(...) from e" (search_service.py lines 259-286).
Raised(entry, err, stage) ==
    IF entry \in EnsureEntries
    THEN [NoOutcome EXCEPT !.kind = "raised", !.err = "LocationResolutionError",
                           !.cause = err, !.stage = stage]
    ELSE [NoOutcome EXCEPT !.kind = "raised", !.err = err, !.stage = stage]

Request(term) ==
    [endpoint |-> "POSITION_ENDPOINT", term |-> term, fromId |-> PyNone, toId |-> PyNone]

SearchRequest(endpoint, from_id, to_id) ==
    [endpoint |-> endpoint, term |-> <<>>, fromId |-> from_id, toId |-> to_id]

\* DiscoveryApiClient.get: one call of _make_request, which sends one HTTP
\* request (discovery_client.py lines 29-32 and 48-49)
Get(request) ==
    /\ calls' = Append(calls, request)
    /\ http_attempts' = http_attempts + 1

NoGet == UNCHANGED <<calls, http_attempts>>

\* AutocompleteIssue with the request sent before the term is looked at (the
\* slip C4 rules out)
AutocompleteIssue_CallFirst(entry, term, waiting, rejected) ==
    /\ Get(Request(term))
    /\ IF rejected # ""
       THEN outcome' = Raised(entry, rejected, "validate") /\ pc' = "done"
       ELSE outcome' = outcome /\ pc' = waiting

\* positions_autocomplete up to its await (lines 22-44): validate, then GET.
AutocompleteIssue(entry, term, waiting, rejected) ==
    IF rejected # ""
    THEN /\ outcome' = Raised(entry, rejected, "validate")
         /\ pc' = "done"
         /\ NoGet
    ELSE /\ Get(Request(term))
         /\ pc' = waiting
         /\ outcome' = outcome

AutocompleteBegin(entry, term, waiting) ==
    AutocompleteIssue(entry, term, waiting, validate_autocomplete_params(term))

\* resolve_positions up to its first await (lines 115-139).
ResolveBegin(entry, from_term, to_term) ==
    IF validate_resolve_params(from_term, to_term) # ""
    THEN /\ outcome' = Raised(entry, validate_resolve_params(from_term, to_term),
                              "resolve_validate")
         /\ pc' = "done"
         /\ NoGet
    ELSE AutocompleteBegin(entry, from_term, "origin_wait")

\* The tool entry LocationService.positions_autocomplete(params)
AutocompleteCall(term) ==
    /\ pc = "idle"
    /\ op' = "autocomplete"
    /\ params' = [NoParams EXCEPT !.term = term]
    /\ AutocompleteBegin("autocomplete", term, "ac_wait")
    /\ UNCHANGED <<replies, resolve_calls, origin_ac, dest_ac, found_ids, restVars>>

\* What the awaited GET gives positions_autocomplete: the exception it raises,
\* or its response
AutocompleteOf(resp) ==
    IF resp.status = "fail"
    THEN [NoAutocomplete EXCEPT !.err = "UpstreamApiError"]
    ELSE AutocompleteFinish(resp)

StageOf(ac) == IF ac.err = "UpstreamApiError" THEN "upstream" ELSE "normalize"

\* The GET of positions_autocomplete completes (lines 44-113)
AutocompleteReturned(ac) ==
    /\ pc' = "done"
    /\ outcome' = IF ac.err # "" THEN Raised(op, ac.err, StageOf(ac))
                  ELSE [NoOutcome EXCEPT !.kind = "returned", !.ac = ac]

AutocompleteReturn(resp) ==
    /\ pc = "ac_wait"
    /\ replies' = Append(replies, resp.status)
    /\ AutocompleteReturned(AutocompleteOf(resp))
    /\ UNCHANGED <<op, params, calls, http_attempts, resolve_calls, origin_ac, dest_ac,
                   found_ids, restVars>>

\* The tool entry LocationService.resolve_positions(params)
ResolveCall(from_term, to_term) ==
    /\ pc = "idle"
    /\ op' = "resolve"
    /\ params' = [NoParams EXCEPT !.from_term = PyText(from_term),
                                  !.to_term = PyText(to_term)]
    /\ resolve_calls' = resolve_calls + 1
    /\ ResolveBegin("resolve", from_term, to_term)
    /\ UNCHANGED <<replies, origin_ac, dest_ac, found_ids, restVars>>

\* OriginReturned with a failed origin lookup swallowed: the destination is
\* looked up all the same (the slip C6 rules out)
OriginReturned_Continue(ac) ==
    /\ origin_ac' = IF ac.err # "" THEN NoAutocomplete ELSE ac
    /\ AutocompleteBegin(op, params.to_term.cs, "dest_wait")

\* The origin GET completes; resolve_positions runs on to the destination
\* call (lines 133-173).
OriginReturned(ac) ==
    IF ac.err # ""
    THEN /\ outcome' = Raised(op, ac.err, StageOf(ac))
         /\ pc' = "done"
         /\ NoGet
         /\ origin_ac' = origin_ac
    ELSE /\ origin_ac' = ac
         /\ AutocompleteBegin(op, params.to_term.cs, "dest_wait")

OriginReturn(resp) ==
    /\ pc = "origin_wait"
    /\ replies' = Append(replies, resp.status)
    /\ OriginReturned(AutocompleteOf(resp))
    /\ UNCHANGED <<op, params, resolve_calls, dest_ac, found_ids, restVars>>

\* What _ensure_position_ids does with the response of resolve_positions
\* (search_service.py lines 267-280).
EnsureFinish(resolved) ==
    IF ~Truthy(resolved.suggestion.from_id) \/ ~Truthy(resolved.suggestion.to_id)
    THEN [Raised("ensure", "LocationResolutionError", "ensure_missing")
            EXCEPT !.resolved = resolved]
    ELSE [NoOutcome EXCEPT !.kind = "returned", !.resolved = resolved,
                           !.ids = [from_id |-> resolved.suggestion.from_id,
                                    to_id   |-> resolved.suggestion.to_id]]

\* The destination GET completes; resolve_positions returns (lines 167-236),
\* to the tool or to _ensure_position_ids.
ResolveReturned(resolved) ==
    IF op \in EnsureEntries THEN EnsureFinish(resolved)
    ELSE [NoOutcome EXCEPT !.kind = "returned", !.resolved = resolved]

\* A search operation from the return of _ensure_position_ids to its await of
\* the search endpoint: prepare_common_api_params puts from_id and to_id in
\* the query as fromId and toId (normalizer.py lines 89-98; search_service.py
\* lines 36-50, 72-86, 132-145, 206-219).
SearchIssue(entry, ids) ==
    /\ found_ids' = ids
    /\ Get(SearchRequest(EndpointOf(entry), ids.from_id, ids.to_id))
    /\ pc' = "search_wait"
    /\ outcome' = outcome

\* _ensure_position_ids has ended with ensured: the entry point ends the same
\* way, unless it is a search operation that got its ids and goes on.
AfterEnsure(entry, ensured) ==
    IF entry \in SearchOps /\ ensured.kind = "returned"
    THEN SearchIssue(entry, ensured.ids)
    ELSE /\ outcome' = ensured
         /\ pc' = "done"
         /\ NoGet
         /\ found_ids' = found_ids

DestReturned(ac) ==
    /\ dest_ac' = IF ac.err # "" THEN dest_ac ELSE ac
    /\ IF ac.err # ""
       THEN AfterEnsure(op, Raised(op, ac.err, StageOf(ac)))
       ELSE AfterEnsure(op, ResolveReturned(ResolveResponse(params.from_term.cs,
                                                            params.to_term.cs, origin_ac, ac)))

DestReturn(resp) ==
    /\ pc = "dest_wait"
    /\ replies' = Append(replies, resp.status)
    /\ DestReturned(AutocompleteOf(resp))
    /\ UNCHANGED <<op, params, resolve_calls, origin_ac, restVars>>

\* SearchService._ensure_position_ids(params) (search_service.py lines 251-290),
\* called by entry
EnsureBegin(entry, from_id, to_id, from_term, to_term) ==
    IF Truthy(from_id) /\ Truthy(to_id)
    THEN /\ AfterEnsure(entry, [NoOutcome EXCEPT !.kind = "returned",
                                   !.ids = [from_id |-> from_id, to_id |-> to_id]])
         /\ resolve_calls' = resolve_calls
    ELSE IF Truthy(from_term) /\ Truthy(to_term)
    THEN /\ resolve_calls' = resolve_calls + 1
         /\ ResolveBegin(entry, from_term.cs, to_term.cs)
         /\ found_ids' = found_ids
    ELSE /\ AfterEnsure(entry, Raised(entry, "", "ensure_input"))
         /\ resolve_calls' = resolve_calls

EnsureCall(from_id, to_id, from_term, to_term) ==
    /\ pc = "idle"
    /\ op' = "ensure"
    /\ params' = [NoParams EXCEPT !.from_id = from_id, !.to_id = to_id,
                                  !.from_term = from_term, !.to_term = to_term]
    /\ EnsureBegin("ensure", from_id, to_id, from_term, to_term)
    /\ UNCHANGED <<replies, origin_ac, dest_ac, restVars>>

(***************************************************************************)
(* Inputs tried.                                                           *)
(***************************************************************************)
T(cs) == PyText(cs)

AutocompleteTerms == SeqsUpTo({" ", "a"}, MaxTerm)

\* (from_term, to_term) pairs: one passing every check, and one per check failed
TermAB == <<"a", "b">>
TermCD == <<"c", "d">>
ResolveTermPairs ==
    { <<TermAB, TermCD>>, <<<<>>, TermCD>>, <<TermAB, <<" ">>>>,
      <<<<"a">>, TermCD>>, <<TermAB, <<"c">>>> }

EnsureIdPairs == { <<f, t>> : f \in {PyNone, PyInt(0), PyInt(1)}, t \in {PyNone, PyInt(2)} }

EnsureTermPairs ==
    { <<T(p[1]), T(p[2])>> : p \in ResolveTermPairs }
      \cup { <<PyNone, PyNone>>, <<T(TermAB), PyNone>> }

UpRecs ==
    { RawRecord(PyInt(0), A, A, PyStr("Zero"), PyStr("location"), A, FALSE),
      RawRecord(PyText(<<"7">>), PyStr("Paris"), A, A, PyStr("location"), PyStr("FR"), FALSE),
      RawRecord(PyInt(7), A, PyStr("Gare"), A, PyStr("station"), A, FALSE),
      RawRecord(A, A, A, PyStr("NoId"), A, A, FALSE),
      RawRecord(PyInt(3), A, A, PyStr("NullType"), PyNone, A, FALSE) }

UpLoc7  == RawRecord(PyText(<<"7">>), PyStr("Paris"), A, A, PyStr("location"), PyStr("FR"), FALSE)
UpCity5 == RawRecord(PyInt(5), A, A, PyStr("Lille"), A, A, FALSE)

UpstreamResponses ==
    { UpFail, UpOther,
      UpDict(<<>>, <<>>, <<>>, <<>>, <<>>),
      UpDict(<<UpLoc7>>, <<>>, <<UpCity5>>, <<>>, <<>>),
      UpDict(<<>>, <<>>, <<UpCity5>>, <<>>, <<UpLoc7>>) }
      \cup { UpList(l) : l \in SeqsUpTo(UpRecs, MaxCand) }

(***************************************************************************)
(* Spec: the location service and _ensure_position_ids.                    *)
(***************************************************************************)

LocInit ==
    /\ pc = "idle"
    /\ op = "none"
    /\ params = NoParams
    /\ calls = <<>>
    /\ replies = <<>>
    /\ resolve_calls = 0
    /\ origin_ac = NoAutocomplete
    /\ dest_ac = NoAutocomplete
    /\ outcome = NoOutcome
    /\ found_ids = NoIds
    /\ http_attempts = 0

\* shape_day_results before it is called: an empty payload, nothing produced
NoDayData ==
    [carriers |-> <<>>, positions |-> <<>>, segments |-> <<>>,
     combinedSchedules |-> PyAbsent, outboundSchedules |-> PyAbsent,
     inboundSchedules |-> PyAbsent, fromPosId |-> PyAbsent, toPosId |-> PyAbsent]
ShapePending ==
    [status |-> "pending", raised |-> "", results |-> <<>>, errors_count |-> 0,
     from_index |-> <<>>]

\* An exception: its class name and str(exc)
Exc(type, message) == [type |-> type, message |-> message]

NoExc == Exc("", "")

\* The dict a tool returns (result.model_dump()), of which the wrapper reads
\* the key result_count
ToolResult(body, result_count) == [body |-> body, result_count |-> result_count]

NoResult == ToolResult("", PyAbsent)

\* How the wrapped handler ended: kind "returns" with result, or "raises" with exc
NoHandler == [kind |-> "none", tool |-> "", result |-> NoResult, exc |-> NoExc]

\* What the caller of the wrapped tool gets: kind "returned" with the tool's
\* result or with the envelope {"error": {"type", "message"}}, or kind "raised"
\* with the exception that left the wrapper
NoToolOutcome == [kind |-> "none", result |-> NoResult, error |-> NoExc, exc |-> NoExc]

SinkUp == [up |-> TRUE, refused |-> 0]

\* The parts of the state a specification does not exercise
NormIdle  == raw_positions = <<>> /\ norm_result = Pending
DateIdle  == date_args = NoDate /\ date_result = DatePending
ShapeIdle == raw_data = NoDayData /\ shape_result = ShapePending
TraceIdle ==
    /\ t_pc = "off"
    /\ handler = NoHandler
    /\ sink = SinkUp
    /\ metrics = <<>>
    /\ tool_outcome = NoToolOutcome
    /\ caught = NoExc
\* A payload object: what it held when given, and what it holds now
Payload(raw) == [given |-> raw, now |-> raw]

RepIdle   == rep_fn = "none" /\ rep_raw = Payload(<<>>) /\ rep_out = <<>>

\* http/discovery_client.py lines 12-24: a DiscoveryApiClient, with the
\* requests its httpx client has sent and whether aclose() was awaited on it
ClientRecord(made, requests, closed) ==
    [made |-> made, requests |-> requests, closed |-> closed]

\* factory/singleton_factory.py lines 6-7: the global before it is first set
NoClient == ClientRecord(FALSE, 0, FALSE)

\* DiscoveryApiClient() (lines 15, 22)
NewClient == ClientRecord(TRUE, 0, FALSE)

\* The process outside main(): the tool modules are imported, which builds
\* both services and so both clients (mcp/tools/resolve_tools.py lines 9-10)
ShutIdle ==
    /\ s_pc = "off"
    /\ client_instance = NewClient
    /\ discovery_client = NewClient
    /\ served = 0
    /\ swallowed = <<>>

Init ==
    /\ LocInit
    /\ ShutIdle
    /\ NormIdle
    /\ DateIdle
    /\ ShapeIdle
    /\ TraceIdle
    /\ RepIdle

Next ==
    \/ \E term \in AutocompleteTerms : AutocompleteCall(term)
    \/ \E resp \in UpstreamResponses : AutocompleteReturn(resp)
    \/ \E p \in ResolveTermPairs : ResolveCall(p[1], p[2])
    \/ \E resp \in UpstreamResponses : OriginReturn(resp)
    \/ \E resp \in UpstreamResponses : DestReturn(resp)
    \/ \E ids \in EnsureIdPairs, terms \in EnsureTermPairs :
          EnsureCall(ids[1], ids[2], terms[1], terms[2])

Spec == Init /\ [][Next]_vars

(***************************************************************************)
(* SpecNorm: normalize_positions applied to a raw list.                    *)
(***************************************************************************)
NormInit ==
    /\ raw_positions \in SeqsUpTo(RawSamples, MaxRaw)
    /\ norm_result = Pending
    /\ LocInit
    /\ ShutIdle
    /\ DateIdle
    /\ ShapeIdle
    /\ TraceIdle
    /\ RepIdle

NormalizeCall ==
    /\ norm_result.status = "pending"
    /\ norm_result' = [status |-> "done"] @@ normalize_positions(raw_positions)
    /\ UNCHANGED <<raw_positions, locVars, dateVars, searchVars, shapeVars, traceVars, repVars, shutVars>>

NormNext == NormalizeCall

SpecNorm == NormInit /\ [][NormNext]_vars

(***************************************************************************)
(* SpecDate: validate_date_range applied to two texts and a maximum.       *)
(***************************************************************************)
DigitChar(i) ==
    CASE i = 0 -> "0" [] i = 1 -> "1" [] i = 2 -> "2" [] i = 3 -> "3" [] i = 4 -> "4"
      [] i = 5 -> "5" [] i = 6 -> "6" [] i = 7 -> "7" [] i = 8 -> "8" [] i = 9 -> "9"

TwoDigits(n) == <<DigitChar(n \div 10), DigitChar(n % 10)>>

\* The text YYYY-MM-DD of the three numbers, whether or not it names a day
IsoText(y, m, d) ==
    TwoDigits(y \div 100) \o TwoDigits(y % 100) \o <<"-">> \o TwoDigits(m)
        \o <<"-">> \o TwoDigits(d)

DateTexts ==
    { IsoText(y, m, d) : y \in {2023, 2024}, m \in {2, 6, 7, 13}, d \in {1, 2, 5, 29, 30} }
      \cup { <<"2", "0", "2", "4", "/", "0", "6", "/", "0", "1">>,
             <<"j", "u", "n", "e">>, <<>> }

\* max_days of search_calendar_prices (31) and of the two summaries (30)
MaxDaysTried == {30, 31}

DateInit ==
    /\ date_args \in [start : DateTexts, end : DateTexts, max_days : MaxDaysTried]
    /\ date_result = DatePending
    /\ LocInit
    /\ ShutIdle
    /\ NormIdle
    /\ ShapeIdle
    /\ TraceIdle
    /\ RepIdle

ValidateDateRangeCall ==
    /\ date_result.status = "pending"
    /\ date_result' = [status |-> "done"] @@
                      validate_date_range(date_args.start, date_args.end,
                                          date_args.max_days)
    /\ UNCHANGED <<date_args, locVars, normVars, searchVars, shapeVars, traceVars, repVars, shutVars>>

DateNext == ValidateDateRangeCall

SpecDate == DateInit /\ [][DateNext]_vars

(***************************************************************************)
(* utils/normalizer.py: shape_day_results.  The day-results payload is a   *)
(* dict of three lookup lists (carriers, positions, segments), three       *)
(* schedule lists and the two position ids of the request.  Ids and        *)
(* datetimes are texts (PyText) or ints; names, modes and currencies are   *)
(* strings that are only passed on (PyStr).  A dict built by a             *)
(* comprehension is kept as the sequence of its (key, value) pairs in the  *)
(* order written, of which a lookup takes the last with the key.           *)
(***************************************************************************)
RECURSIVE NatText(_)
NatText(n) ==
    IF n < 10 THEN <<DigitChar(n)>>
    ELSE NatText(n \div 10) \o <<DigitChar(n % 10)>>

\* str(x) of an int, of None and of a string
py_str(v) ==
    CASE v.t = "int"  -> PyText(IF v.n < 0 THEN <<"-">> \o NatText(0 - v.n)
                                ELSE NatText(v.n))
      [] v.t = "none" -> PyText(<<"N", "o", "n", "e">>)
      [] OTHER        -> v

RECURSIVE MapGet(_, _, _)
MapGet(pairs, key, default) ==
    IF pairs = <<>> THEN default
    ELSE IF pairs[Len(pairs)].key = key THEN pairs[Len(pairs)].value
    ELSE MapGet(SubSeq(pairs, 1, Len(pairs) - 1), key, default)

HasKey(pairs, key) == \E i \in 1..Len(pairs) : pairs[i].key = key

\* An entry of a lookup list or of a schedule list that is a dict, and one
\* that is not (entry.get raises AttributeError)
IsDict(entry) == entry.kind = "dict"

Carrier(id, name, code) == [kind |-> "dict", id |-> id, name |-> name, code |-> code]

DayPosition(id, name) == [kind |-> "dict", id |-> id, name |-> name]

Segment(id, departureDateTime, arrivalDateTime, travelMode, durationMinutes, departurePositionId, carrierId) ==
    [kind |-> "dict", id |-> id, departureDateTime |-> departureDateTime,
     arrivalDateTime |-> arrivalDateTime,
     departureTimeZone |-> PyAbsent, arrivalTimeZone |-> PyStr("Europe/Paris"),
     departurePositionId |-> departurePositionId, arrivalPositionId |-> PyAbsent,
     travelMode |-> travelMode, durationMinutes |-> durationMinutes,
     carrierId |-> carrierId]

\* first_seg = {} (line 134): every key is missing
EmptySegment ==
    [kind |-> "dict", id |-> PyAbsent, departureDateTime |-> PyAbsent,
     arrivalDateTime |-> PyAbsent, departureTimeZone |-> PyAbsent,
     arrivalTimeZone |-> PyAbsent, departurePositionId |-> PyAbsent,
     arrivalPositionId |-> PyAbsent, travelMode |-> PyAbsent,
     durationMinutes |-> PyAbsent, carrierId |-> PyAbsent]

Schedule(id, segmentIDs, departureAt, arrivalAt, travelMode, priceCents, duration) ==
    [kind |-> "dict", id |-> id, segmentIDs |-> segmentIDs, departureAt |-> departureAt,
     arrivalAt |-> arrivalAt, travelMode |-> travelMode, priceCents |-> priceCents,
     currency |-> PyAbsent, duration |-> duration]

\* A schedule list entry that is not a dict (a string, a number, null)
NotADict == [kind |-> "other"]

DayData(carriers, positions, segments, combined, outbound, inbound, fromPosId, toPosId) ==
    [carriers |-> carriers, positions |-> positions, segments |-> segments,
     combinedSchedules |-> combined, outboundSchedules |-> outbound,
     inboundSchedules |-> inbound, fromPosId |-> fromPosId, toPosId |-> toPosId]

\* lines 108-112: the three lookup tables
carriers_map(raw) ==
    [i \in 1..Len(raw.carriers) |->
        [key   |-> py_str(PyGet(raw.carriers[i].id)),
         value |-> PyOr(PyOr(PyGet(raw.carriers[i].name), PyGet(raw.carriers[i].code)),
                        py_str(PyGet(raw.carriers[i].id)))]]

positions_map(raw) ==
    [i \in 1..Len(raw.positions) |->
        [key   |-> py_str(PyGet(raw.positions[i].id)),
         value |-> PyOr(PyGet(raw.positions[i].name), py_str(PyGet(raw.positions[i].id)))]]

segments_map(raw) ==
    [i \in 1..Len(raw.segments) |->
        [key |-> py_str(PyGet(raw.segments[i].id)), value |-> raw.segments[i]]]

\* The comprehensions call .get on every entry, outside the try of the loop
TablesAreDicts(raw) ==
    /\ \A i \in 1..Len(raw.carriers)  : IsDict(raw.carriers[i])
    /\ \A i \in 1..Len(raw.positions) : IsDict(raw.positions[i])
    /\ \A i \in 1..Len(raw.segments)  : IsDict(raw.segments[i])

\* raw_data.get(key, []) or [] (line 117), for a value that is a list or null
SchedulesUnder(v) == IF Truthy(v) THEN v.cs ELSE <<>>

\* lines 114-118
all_schedules(raw) ==
    SchedulesUnder(raw.combinedSchedules) \o SchedulesUnder(raw.outboundSchedules)
        \o SchedulesUnder(raw.inboundSchedules)

\* What "for sid in x" goes through: the items of a list, the characters of a
\* string; anything else the model tries is not iterable (TypeError)
Iterable(v) == v.t \in {"list", "text"}

IterItems(v) ==
    IF v.t = "text" THEN [i \in 1..Len(v.cs) |-> PyText(<<v.cs[i]>>)] ELSE v.cs

\* "sid in segments_map" hashes sid: a list is unhashable (TypeError)
Hashable(v) == v.t # "list"

\* line 130: the references kept are those that are themselves keys of the
\* segment table, which are strings
segment_ids(table, items) ==
    LET Known(sid) == HasKey(table, sid)
    IN  [i \in 1..Len(SelectSeq(items, Known)) |-> py_str(SelectSeq(items, Known)[i])]

\* line 131
segments_data(table, ids) ==
    [i \in 1..Len(ids) |-> MapGet(table, ids[i], EmptySegment)]

\* line 132: the sort key
SortKey(s) == PyOr(PyGet(s.departureDateTime), PyText(<<>>))

\* Code points of the characters that datetimes are written with
CharRank(c) ==
    CASE c = "-" -> 45 [] c = ":" -> 58 [] c = "T" -> 84
      [] OTHER   -> 48 + DigitVal(c)

\* a < b on strings: lexicographic by code point
RECURSIVE TextLess(_, _)
TextLess(a, b) ==
    IF b = <<>> THEN FALSE
    ELSE IF a = <<>> THEN TRUE
    ELSE IF Head(a) = Head(b) THEN TextLess(Tail(a), Tail(b))
    ELSE CharRank(Head(a)) < CharRank(Head(b))

KeyLess(a, b) == IF a.t = "int" THEN a.n < b.n ELSE TextLess(a.cs, b.cs)

\* list.sort compares the keys with <: strings with strings or ints with
\* ints; a string against an int raises TypeError.  One key is never compared.
Sortable(segs) ==
    \/ Len(segs) <= 1
    \/ \A i \in 1..Len(segs) : SortKey(segs[i]).t = "text"
    \/ \A i \in 1..Len(segs) : SortKey(segs[i]).t = "int"

\* list.sort is stable: a segment goes behind those whose key is not greater
RECURSIVE InsertSegment(_, _)
InsertSegment(sorted, s) ==
    IF sorted = <<>> THEN <<s>>
    ELSE IF KeyLess(SortKey(s), SortKey(Head(sorted))) THEN <<s>> \o sorted
    ELSE <<Head(sorted)>> \o InsertSegment(Tail(sorted), s)

RECURSIVE SortSegments(_)
SortSegments(segs) ==
    IF segs = <<>> THEN <<>>
    ELSE InsertSegment(SortSegments(SubSeq(segs, 1, Len(segs) - 1)), segs[Len(segs)])

\* line 134
FirstSegment(sorted) == IF sorted # <<>> THEN sorted[1] ELSE EmptySegment

\* schemas/models.py lines 49-51: TimeInfo(datetime: str, tz: Optional[str])
TimeInfo(datetime, tz) ==
    [err |-> IF IsPyStr(datetime) /\ (tz.t = "none" \/ IsPyStr(tz)) THEN ""
             ELSE "ValidationError",
     datetime |-> datetime, tz |-> tz]

\* float(x) / 100 (line 153), kept as the number of hundredths.  Of the
\* strings, those written as an integer are tried.
Hundredths(v) ==
    CASE v.t = "int"  -> [err |-> "", cents |-> v.n]
      [] v.t = "text" -> [err |-> IntOfText(strip(v.cs)).err,
                          cents |-> IntOfText(strip(v.cs)).n]
      [] OTHER        -> [err |-> "TypeError", cents |-> 0]

\* dict.get(key, default)
PyGetOr(v, default) == IF v.t = "absent" THEN default ELSE v

\* line 158
CarrierOf(raw, first_seg) ==
    IF Truthy(PyGet(first_seg.carrierId))
    THEN MapGet(carriers_map(raw), py_str(PyGet(first_seg.carrierId)), PyNone)
    ELSE PyNone

\* lines 136-159: the fields of the itinerary, before validation
ItineraryFields(raw, sched, first_seg) ==
    [from_term  |-> MapGet(positions_map(raw),
                           py_str(PyOr(PyOr(PyGet(first_seg.departurePositionId),
                                            PyGet(raw.fromPosId)), PyText(<<>>))),
                           PyStr("Unknown")),
     to_term    |-> MapGet(positions_map(raw),
                           py_str(PyOr(PyOr(PyGet(first_seg.arrivalPositionId),
                                            PyGet(raw.toPosId)), PyText(<<>>))),
                           PyStr("Unknown")),
     mode       |-> PyOr(PyOr(PyGet(first_seg.travelMode), PyGet(sched.travelMode)),
                         PyStr("unknown")),
     stable_id  |-> py_str(PyOr(PyOr(PyGet(sched.id), PyGet(first_seg.id)), PyText(<<>>))),
     price_from |-> Hundredths(PyGetOr(sched.priceCents, PyInt(0))),
     currency   |-> PyOr(PyGet(sched.currency), PyStr("EUR")),
     duration   |-> py_str(PyOr(PyOr(PyGet(first_seg.durationMinutes),
                                     PyGet(sched.duration)), PyInt(0))),
     departure  |-> TimeInfo(PyOr(PyGet(first_seg.departureDateTime),
                                  PyGet(sched.departureAt)),
                             PyOr(PyGet(first_seg.departureTimeZone), PyStr("UTC"))),
     arrival    |-> TimeInfo(PyOr(PyGet(first_seg.arrivalDateTime),
                                  PyGet(sched.arrivalAt)),
                             PyOr(PyGet(first_seg.arrivalTimeZone), PyStr("UTC"))),
     carrier    |-> CarrierOf(raw, first_seg)]

\* schemas/models.py lines 54-65: the str fields of Itinerary take strings
\* only, carrier a string or None
ItineraryValid(f) ==
    /\ IsPyStr(f.from_term) /\ IsPyStr(f.to_term) /\ IsPyStr(f.mode)
    /\ IsPyStr(f.stable_id) /\ IsPyStr(f.currency) /\ IsPyStr(f.duration)
    /\ (f.carrier.t = "none" \/ IsPyStr(f.carrier))

\* The exception the derivation raises for these fields, "" if none
ItineraryError(f) ==
    IF f.departure.err # "" THEN f.departure.err
    ELSE IF f.arrival.err # "" THEN f.arrival.err
    ELSE IF f.price_from.err # "" THEN f.price_from.err
    ELSE IF ~ItineraryValid(f) THEN "ValidationError"
    ELSE ""

\* One pass of the loop body (lines 124-172): made says whether an itinerary
\* is appended, err names the exception caught ("" for none; a non-dict is
\* skipped without one).
Shaped(f) ==
    [made |-> ItineraryError(f) = "", err |-> ItineraryError(f), itinerary |-> f]

NoItinerary == ItineraryFields(DayData(<<>>, <<>>, <<>>, PyAbsent, PyAbsent, PyAbsent,
                                        PyAbsent, PyAbsent),
                               Schedule(PyAbsent, PyAbsent, PyAbsent, PyAbsent, PyAbsent,
                                        PyAbsent, PyAbsent),
                               EmptySegment)

NotShaped(err) == [made |-> FALSE, err |-> err, itinerary |-> NoItinerary]

ShapeSegments(raw, sched, segs) ==
    IF ~Sortable(segs) THEN NotShaped("TypeError")
    ELSE Shaped(ItineraryFields(raw, sched, FirstSegment(SortSegments(segs))))

ShapeReferences(raw, sched, refs) ==
    IF ~Iterable(refs) THEN NotShaped("TypeError")
    ELSE IF \E i \in 1..Len(IterItems(refs)) : ~Hashable(IterItems(refs)[i])
    THEN NotShaped("TypeError")
    ELSE ShapeSegments(raw, sched,
                       segments_data(segments_map(raw),
                                     segment_ids(segments_map(raw), IterItems(refs))))

ShapeSchedule(raw, sched) ==
    IF ~IsDict(sched) THEN NotShaped("")
    ELSE ShapeReferences(raw, sched, PyOr(PyGet(sched.segmentIDs), PyList(<<>>)))

\* lines 120-175: shaped_results and errors_count after the loop.  from_index
\* keeps, for each itinerary, the index in all_schedules of the schedule it
\* comes from.
\* ShapeStep with an error that empties the list built so far (the slip C19
\* rules out)
ShapeStep_LosesSiblings(acc, idx, one) ==
    IF one.made
    THEN [acc EXCEPT !.results = Append(@, one.itinerary),
                     !.from_index = Append(@, idx),
                     !.errors_count = @ + 1]
    ELSE [acc EXCEPT !.results = <<>>, !.from_index = <<>>, !.errors_count = @ + 1]

\* After the append the debug line (lines 163-166) reads itinerary.priceFrom;
\* the field of Itinerary is price_from, priceFrom being its alias (models.py
\* line 60), so the read raises AttributeError, which the except clause
\* (lines 168-172) counts: the itinerary stays in the list and is counted
\* as an error too.
ShapeStep(acc, idx, one) ==
    IF one.made
    THEN [acc EXCEPT !.results = Append(@, one.itinerary),
                     !.from_index = Append(@, idx),
                     !.errors_count = @ + 1]
    ELSE [acc EXCEPT !.errors_count = @ + 1]

RECURSIVE ShapeLoop(_, _, _)
ShapeLoop(raw, schedules, n) ==
    IF n = 0
    THEN [raised |-> "", results |-> <<>>, errors_count |-> 0, from_index |-> <<>>]
    ELSE ShapeStep(ShapeLoop(raw, schedules, n - 1), n, ShapeSchedule(raw, schedules[n]))

shape_day_results(raw) ==
    IF ~TablesAreDicts(raw)
    THEN [raised |-> "AttributeError", results |-> <<>>, errors_count |-> 0,
          from_index |-> <<>>]
    ELSE ShapeLoop(raw, all_schedules(raw), Len(all_schedules(raw)))

(***************************************************************************)
(* SpecShape: shape_day_results applied to a day-results payload.          *)
(***************************************************************************)
MaxSched == 2    \* longest outbound schedule list tried

Tx(cs) == PyText(cs)

\* Two segments: "1" leaves at "10", 2 (an int id, key "2") leaves at "09"
SegOne == Segment(Tx(<<"1">>), Tx(<<"1", "0">>), Tx(<<"1", "2">>), PyStr("train"),
                  PyInt(90), PyInt(10), PyInt(1))
SegTwo == Segment(PyInt(2), Tx(<<"0", "9">>), Tx(<<"1", "1">>), PyStr("bus"),
                  A, Tx(<<"2", "0">>), A)
\* a segment whose departureDateTime is a number
SegNum == Segment(Tx(<<"3">>), PyInt(5), Tx(<<"1", "1">>), A, A, A, A)

DayTables ==
    { [carriers  |-> <<Carrier(PyInt(1), A, PyStr("SN"))>>,
       positions |-> <<DayPosition(PyInt(10), PyStr("Paris")),
                       DayPosition(Tx(<<"2", "0">>), PyNone)>>,
       segments  |-> <<SegOne, SegTwo, SegNum>>],
      [carriers |-> <<>>, positions |-> <<>>, segments |-> <<>>],
      [carriers |-> <<>>, positions |-> <<>>, segments |-> <<SegOne, NotADict>>] }

\* Schedules tried, one per path of the loop body
SchedPlain    == Schedule(Tx(<<"7">>), A, Tx(<<"0", "8">>), Tx(<<"0", "9">>), A,
                          PyInt(1250), A)
SchedNoTimes  == Schedule(Tx(<<"8">>), PyList(<<Tx(<<"9">>)>>), A, A, A, PyInt(1000), A)
SchedRefs     == Schedule(A, PyList(<<Tx(<<"1">>), Tx(<<"2">>)>>), A, A, PyStr("mixed"),
                          A, PyInt(45))
SchedIntRefs  == Schedule(PyInt(9), PyList(<<PyInt(1), PyInt(2)>>), Tx(<<"0", "7">>),
                          Tx(<<"0", "8">>), PyStr("bus"), PyInt(0), PyInt(45))
SchedDangling == Schedule(PyInt(6), PyList(<<Tx(<<"9">>)>>), Tx(<<"0", "7">>),
                          Tx(<<"0", "8">>), A, Tx(<<"9", "9">>), A)
SchedMixedKeys == Schedule(A, PyList(<<Tx(<<"1">>), Tx(<<"3">>)>>), A, A, A, A, A)
SchedNullPrice == Schedule(A, PyNone, Tx(<<"0", "7">>), Tx(<<"0", "8">>), A, PyNone, A)
SchedBadRefs  == Schedule(A, PyInt(5), Tx(<<"0", "7">>), Tx(<<"0", "8">>), A, A, A)

ScheduleSamples ==
    { SchedPlain, SchedNoTimes, SchedRefs, SchedIntRefs, SchedDangling, SchedMixedKeys,
      SchedNullPrice, SchedBadRefs, NotADict }

DayPayloads ==
    { DayData(t.carriers, t.positions, t.segments, c, PyList(o), i, PyInt(10), A) :
        t \in DayTables,
        c \in { A, PyNone, PyList(<<SchedRefs>>), PyList(<<NotADict>>) },
        o \in SeqsUpTo(ScheduleSamples, MaxSched),
        i \in { A, PyList(<<SchedPlain>>), PyList(<<SchedNoTimes>>) } }

ShapeInit ==
    /\ raw_data \in DayPayloads
    /\ shape_result = ShapePending
    /\ LocInit
    /\ ShutIdle
    /\ NormIdle
    /\ DateIdle
    /\ TraceIdle
    /\ RepIdle

ShapeCall ==
    /\ shape_result.status = "pending"
    /\ shape_result' = [status |-> "done"] @@ shape_day_results(raw_data)
    /\ UNCHANGED <<raw_data, locVars, searchVars, normVars, dateVars, traceVars, repVars, shutVars>>

ShapeNext == ShapeCall

SpecShape == ShapeInit /\ [][ShapeNext]_vars

(***************************************************************************)
(* utils/normalizer.py: normalize_calendar_day_results.  Of the payload    *)
(* the model keeps prices and currency (requestId, fromPosId and toPosId   *)
(* are copied to the result and read by nobody).  priceCents is an int,    *)
(* null or missing.                                                        *)
(***************************************************************************)
CalendarData(prices, currency) == [prices |-> prices, currency |-> currency]

PriceDay(date, priceCents) == [kind |-> "dict", date |-> date, priceCents |-> priceCents]

NoStats == [min_price_cents |-> PyNone, max_price_cents |-> PyNone,
            min_price |-> PyNone, max_price |-> PyNone, total_days |-> 0]

\* What the function gives: the exception it raises ("" for none), the record
\* and the count; has_stats tells whether the record has the key "stats".
CalendarResult(raised, currency, calendar, has_stats, stats) ==
    [raised |-> raised, currency |-> currency, calendar |-> calendar,
     has_stats |-> has_stats, stats |-> stats, count |-> Len(calendar)]

\* Lowers with a tie taken as lower, so that the last pair of a tie is the
\* one kept as cheapest (the slip C26 rules out)
Lowers_OrEqual(best, cents) == best.t = "none" \/ cents.n <= best.n

\* min_price_cents / max_price_cents after one more kept price (lines 223-226)
Lowers(best, cents) == best.t = "none" \/ cents.n < best.n

Raises(best, cents) == best.t = "none" \/ cents.n > best.n

LowerOf(best, cents) == IF Lowers(best, cents) THEN cents ELSE best

HigherOf(best, cents) == IF Raises(best, cents) THEN cents ELSE best

\* One pass of the loop (lines 214-240) over acc = the lists and extremes so far
CalendarStep(acc, day, currency) ==
    IF acc.raised # "" THEN acc
    ELSE IF ~IsDict(day) THEN [acc EXCEPT !.raised = "AttributeError"]
    ELSE IF PyGet(day.date).t = "none" \/ PyGet(day.priceCents).t = "none" THEN acc
    ELSE [acc EXCEPT !.min  = LowerOf(@, day.priceCents),
                     !.max  = HigherOf(@, day.priceCents),
                     !.days = Append(@, [date       |-> day.date,
                                         priceCents |-> PyFloat(day.priceCents.n),
                                         currency   |-> currency])]

RECURSIVE CalendarLoop(_, _, _)
CalendarLoop(price_days, n, currency) ==
    IF n = 0 THEN [raised |-> "", days |-> <<>>, min |-> PyNone, max |-> PyNone]
    ELSE CalendarStep(CalendarLoop(price_days, n - 1, currency), price_days[n], currency)

\* float(x) / 100 if x else None (lines 251-252)
MajorUnits(cents) == IF Truthy(cents) THEN PyCents(cents.n) ELSE PyNone

\* lines 242-255
CalendarStats(acc) ==
    [min_price_cents |-> acc.min, max_price_cents |-> acc.max,
     min_price |-> MajorUnits(acc.min), max_price |-> MajorUnits(acc.max),
     total_days |-> Len(acc.days)]

\* lines 257-262: the log line formats min_price and max_price with ":.2f",
\* which raises TypeError for None
CalendarLogged(acc, currency, stats) ==
    IF acc.raised # "" THEN CalendarResult(acc.raised, currency, <<>>, FALSE, NoStats)
    ELSE IF stats.min_price.t = "none" \/ stats.max_price.t = "none"
    THEN CalendarResult("TypeError", currency, <<>>, FALSE, NoStats)
    ELSE CalendarResult("", currency, acc.days, TRUE, stats)

CalendarLooped(acc, currency) == CalendarLogged(acc, currency, CalendarStats(acc))

normalize_calendar_day_results(data) ==
    IF ~Truthy(PyGetOr(data.prices, PyList(<<>>)))
    THEN CalendarResult("", PyGetOr(data.currency, PyStr("EUR")), <<>>, FALSE, NoStats)
    ELSE CalendarLooped(CalendarLoop(data.prices.cs, Len(data.prices.cs),
                                     PyGetOr(data.currency, PyStr("EUR"))),
                        PyGetOr(data.currency, PyStr("EUR")))

(***************************************************************************)
(* utils/normalizer.py: normalize_cheapest_summary_results.  A dict that   *)
(* the code iterates with .items() is the sequence of its (key, value)     *)
(* pairs in insertion order, the keys distinct.  priceCents and            *)
(* numberOfResults are ints, null or missing.                              *)
(***************************************************************************)
Pair(key, value) == [key |-> key, value |-> value]

\* A dict value that is iterated, and the dict of one (date, mode) entry
DictOf(items) == [t |-> "dict", kind |-> "dict", items |-> items]

PriceInfo(priceCents, numberOfResults) ==
    [kind |-> "dict", priceCents |-> priceCents, numberOfResults |-> numberOfResults,
     lastUpdatedAt |-> PyAbsent]

SummaryData(data) == [data |-> data, errors |-> PyAbsent]

\* d[key] = value: in place when the key is there, else at the end
RECURSIVE MapPut(_, _, _)
MapPut(pairs, key, value) ==
    IF pairs = <<>> THEN <<Pair(key, value)>>
    ELSE IF Head(pairs).key = key THEN <<Pair(key, value)>> \o Tail(pairs)
    ELSE <<Head(pairs)>> \o MapPut(Tail(pairs), key, value)

\* lines 304-313; the stats of the early return (line 296) have the three
\* totals only, and reading their other keys with .get gives None
NoCheapestStats ==
    [total_dates |-> 0, total_modes |-> 0, total_results |-> 0, by_mode |-> <<>>,
     min_price_overall |-> PyNone, max_price_overall |-> PyNone,
     cheapest_date |-> PyNone, cheapest_mode |-> PyNone]

NoModeStats == [count |-> 0, total_results |-> 0, min_price |-> PyNone, max_price |-> PyNone]

\* lines 343-359: the entry of the mode in by_mode after one more kept price
ModeCounted(old, min_price, num_results) ==
    [count |-> old.count + 1, total_results |-> old.total_results + num_results,
     min_price |-> LowerOf(old.min_price, min_price),
     max_price |-> HigherOf(old.max_price, min_price)]

\* lines 340-368
CheapestCounted(stats, date, mode, min_price, num_results) ==
    [stats EXCEPT
        !.total_modes = @ + 1,
        !.total_results = @ + num_results,
        !.by_mode = MapPut(@, mode, ModeCounted(MapGet(@, mode, NoModeStats),
                                                min_price, num_results)),
        !.min_price_overall = LowerOf(@, min_price),
        !.cheapest_date = IF Lowers(stats.min_price_overall, min_price)
                          THEN PyStr(date) ELSE @,
        !.cheapest_mode = IF Lowers(stats.min_price_overall, min_price)
                          THEN PyStr(mode) ELSE @,
        !.max_price_overall = HigherOf(@, min_price)]

\* lines 327-377 for one entry whose info is a dict
CheapestPriced(acc, date, mode, price_cents, num_results, last_updated, currency) ==
    IF price_cents = PyInt(0) \/ num_results = PyInt(0) THEN acc
    ELSE IF price_cents.t # "int" \/ num_results.t # "int"
    THEN [acc EXCEPT !.raised = "TypeError"]
    ELSE [acc EXCEPT
            !.stats = CheapestCounted(@, date, mode, PyCents(price_cents.n), num_results.n),
            !.date_prices = Append(@, Pair(mode,
                                [min_price |-> PyCents(price_cents.n),
                                 price_cents |-> price_cents, currency |-> currency,
                                 number_of_results |-> num_results,
                                 last_updated_at |-> last_updated]))]

CheapestEntry(acc, date, entry, currency) ==
    IF acc.raised # "" \/ ~IsDict(entry.value) THEN acc
    ELSE CheapestPriced(acc, date, entry.key, PyGetOr(entry.value.priceCents, PyInt(0)),
                        PyGetOr(entry.value.numberOfResults, PyInt(0)),
                        PyGet(entry.value.lastUpdatedAt), currency)

\* lines 323-382: the inner loop over the modes of one date
RECURSIVE CheapestModes(_, _, _, _, _)
CheapestModes(stats, date, modes, n, currency) ==
    IF n = 0 THEN [raised |-> "", stats |-> stats, date_prices |-> <<>>]
    ELSE CheapestEntry(CheapestModes(stats, date, modes, n - 1, currency), date,
                       modes[n], currency)

\* lines 384-385
CheapestDated(acc, date, inner) ==
    [raised  |-> inner.raised, stats |-> inner.stats,
     summary |-> IF inner.date_prices # <<>>
                 THEN Append(acc.summary, Pair(date, inner.date_prices))
                 ELSE acc.summary]

\* lines 315-385 for one date
CheapestDate(acc, entry, currency) ==
    IF acc.raised # "" \/ ~IsDict(entry.value) THEN acc
    ELSE CheapestDated(acc, entry.key,
                       CheapestModes([acc.stats EXCEPT !.total_dates = @ + 1], entry.key,
                                     entry.value.items, Len(entry.value.items), currency))

RECURSIVE CheapestDates(_, _, _)
CheapestDates(price_data, n, currency) ==
    IF n = 0 THEN [raised |-> "", stats |-> NoCheapestStats, summary |-> <<>>]
    ELSE CheapestDate(CheapestDates(price_data, n - 1, currency), price_data[n], currency)

CheapestResult(raised, summary, currency, stats) ==
    [raised |-> raised, summary |-> summary, currency |-> currency, stats |-> stats]

\* lines 387-406: the log line formats min_price_overall and max_price_overall
\* with ":.2f", which raises TypeError for None
CheapestLogged(acc, currency) ==
    IF acc.raised # "" THEN CheapestResult(acc.raised, <<>>, currency, NoCheapestStats)
    ELSE IF acc.stats.min_price_overall.t = "none" \/ acc.stats.max_price_overall.t = "none"
    THEN CheapestResult("TypeError", <<>>, currency, NoCheapestStats)
    ELSE CheapestResult("", acc.summary, currency, acc.stats)

\* data is the payload's "data" mapping (DictOf), null or missing
normalize_cheapest_summary_results(data, currency) ==
    IF data.data.t \in {"absent", "none"} \/ data.data.items = <<>>
    THEN CheapestResult("", <<>>, currency, NoCheapestStats)
    ELSE CheapestLogged(CheapestDates(data.data.items, Len(data.data.items), currency),
                        currency)

(***************************************************************************)
(* utils/normalizer.py: normalize_fastest_summary_results.                 *)
(***************************************************************************)
\* The dict under "cheapest" or "fastest"; the key missing (the default {}
\* is read instead); the key holding null
FastSide(priceCents, durationMinutes) ==
    [kind |-> "dict", priceCents |-> priceCents, durationMinutes |-> durationMinutes]

NoSide   == [kind |-> "dict", priceCents |-> PyAbsent, durationMinutes |-> PyAbsent]
NullSide == [kind |-> "none", priceCents |-> PyAbsent, durationMinutes |-> PyAbsent]

FastInfo(numberOfResults, cheapest, fastest) ==
    [kind |-> "dict", numberOfResults |-> numberOfResults, cheapest |-> cheapest,
     fastest |-> fastest]

\* PriceOrDefault with no price always given as null (the slip C27 rules out)
PriceOrDefault_AlwaysNull(cents, default) == IF cents.n > 0 THEN PyCents(cents.n) ELSE PyNone

\* lines 469-476: float(cents) / 100 if cents > 0 else None, then the value
\* when it is truthy, else the default
PriceOrDefault(cents, default) == IF cents.n > 0 THEN PyCents(cents.n) ELSE default

\* lines 458-478 for an entry with results
FastestPriced(acc, mode, cheapest_cents, fastest_cents, fastest_duration, currency) ==
    IF cheapest_cents = PyInt(0) /\ fastest_cents = PyInt(0) THEN acc
    ELSE IF cheapest_cents.t # "int" \/ fastest_cents.t # "int"
    THEN [acc EXCEPT !.raised = "TypeError"]
    ELSE [acc EXCEPT !.date_summary = Append(@, Pair(mode,
             [fastest_duration |-> py_str(fastest_duration),
              fastest_price    |-> PriceOrDefault(fastest_cents, PyFloat(0)),
              cheapest_price   |-> PriceOrDefault(cheapest_cents, PyNone),
              currency         |-> currency]))]

\* lines 446-462
FastestEntry(acc, entry, currency) ==
    IF acc.raised # "" \/ ~IsDict(entry.value) THEN acc
    ELSE IF PyGetOr(entry.value.numberOfResults, PyInt(0)) = PyInt(0) THEN acc
    ELSE IF ~IsDict(entry.value.cheapest) \/ ~IsDict(entry.value.fastest)
    THEN [acc EXCEPT !.raised = "AttributeError"]
    ELSE FastestPriced(acc, entry.key,
                       PyGetOr(entry.value.cheapest.priceCents, PyInt(0)),
                       PyGetOr(entry.value.fastest.priceCents, PyInt(0)),
                       PyGetOr(entry.value.fastest.durationMinutes, PyInt(0)), currency)

RECURSIVE FastestModes(_, _, _)
FastestModes(modes, n, currency) ==
    IF n = 0 THEN [raised |-> "", date_summary |-> <<>>]
    ELSE FastestEntry(FastestModes(modes, n - 1, currency), modes[n], currency)

\* lines 486-487
FastestDated(acc, date, inner) ==
    [raised  |-> inner.raised,
     summary |-> IF inner.date_summary # <<>>
                 THEN Append(acc.summary, Pair(date, inner.date_summary))
                 ELSE acc.summary]

FastestDate(acc, entry, currency) ==
    IF acc.raised # "" \/ ~IsDict(entry.value) THEN acc
    ELSE FastestDated(acc, entry.key,
                      FastestModes(entry.value.items, Len(entry.value.items), currency))

RECURSIVE FastestDates(_, _, _)
FastestDates(price_data, n, currency) ==
    IF n = 0 THEN [raised |-> "", summary |-> <<>>]
    ELSE FastestDate(FastestDates(price_data, n - 1, currency), price_data[n], currency)

FastestResult(acc, currency) ==
    [raised |-> acc.raised, summary |-> IF acc.raised = "" THEN acc.summary ELSE <<>>,
     currency |-> currency]

normalize_fastest_summary_results(data, currency) ==
    IF data.data.t \in {"absent", "none"} \/ data.data.items = <<>>
    THEN [raised |-> "", summary |-> <<>>, currency |-> currency]
    ELSE FastestResult(FastestDates(data.data.items, Len(data.data.items), currency),
                       currency)

(***************************************************************************)
(* http/discovery_client.py: one HTTP exchange as _make_request sees it.   *)
(* transport_error is an httpx.RequestError raised by the request (DNS,    *)
(* connection reset, timeout); otherwise the response has a status code    *)
(* and a body, kept as its decoded JSON.                                   *)
(***************************************************************************)
HttpReply(transport_error, status_code, body) ==
    [transport_error |-> transport_error, status_code |-> status_code, body |-> body]

\* The decoded JSON of a search endpoint
SearchBody(payload) == [status |-> "ok", payload |-> payload]

\* _make_request with the statuses 400..499 let through (the slip C16 rules out)
make_request_ServerErrorsOnly(h) ==
    IF h.transport_error THEN UpFail
    ELSE IF h.status_code >= 500 THEN UpFail
    ELSE h.body

\* _make_request from the answer of its one request on (lines 32-46):
\* UpFail is the UpstreamApiError raised, else response.json() is returned
make_request(h) ==
    IF h.transport_error THEN UpFail
    ELSE IF h.status_code >= 400 THEN UpFail
    ELSE h.body

\* DiscoveryApiClient.get (lines 48-49)
get(h) == make_request(h)

(***************************************************************************)
(* services/search_service.py: the four search operations, cut at their    *)
(* awaits.                                                                 *)
(***************************************************************************)
\* BaseSearchParams.currency (schemas/models.py line 107)
DefaultCurrency == PyStr("EUR")

\* max_days passed to validate_date_range (lines 69, 131, 205)
MaxDaysOf(entry) ==
    CASE entry = "search_calendar_prices"  -> 31
      [] entry = "search_cheapest_summary" -> 30
      [] entry = "search_fastest_summary"  -> 30

\* An exception leaving a search operation outside _ensure_position_ids
SearchRaised(err, stage) ==
    [NoOutcome EXCEPT !.kind = "raised", !.err = err, !.stage = stage]

SearchReturned(response) ==
    [NoOutcome EXCEPT !.kind = "returned", !.response = response]

\* BaseSearchResponse with the ids of the request parameters instead of the
\* ids returned by _ensure_position_ids (the slip C17 rules out)
BaseSearchResponse_FromParams(ids) ==
    [NoResponse EXCEPT !.resolved_from_id = params.from_id,
                       !.resolved_to_id = params.to_id]

\* resolved_from_id=from_id, resolved_to_id=to_id (lines 61-62, 123-124, 197-198,
\* 245-246)
BaseSearchResponse(ids) ==
    [NoResponse EXCEPT !.resolved_from_id = ids.from_id, !.resolved_to_id = ids.to_id]

\* search_day_results from shape_day_results on (lines 56-65): line 58 logs
\* results[0]
DayResultsShaped(ids, shaped) ==
    IF shaped.raised # "" THEN SearchRaised(shaped.raised, "shape")
    ELSE IF shaped.results = <<>> THEN SearchRaised("IndexError", "log_first")
    ELSE SearchReturned([BaseSearchResponse(ids) EXCEPT
            !.results = shaped.results,
            !.note = Note("Prices are estimates and subject to change. Times are local to departure/arrival cities.",
                          <<>>, <<>>)])

\* CalendarDay(date=..., priceCents=..., currency=...) is built (models.py
\* lines 68-72): date is a str, currency a str or None
CalendarDayValid(item) ==
    IsPyStr(item.date) /\ (IsPyStr(item.currency) \/ item.currency.t = "none")

\* lines 110-120
CalendarNote(normalized) ==
    IF normalized.has_stats /\ Truthy(normalized.stats.min_price)
                            /\ Truthy(normalized.stats.max_price)
    THEN Note("Prices represent the lowest available fares within selected period. Range: min - max currency",
              <<normalized.stats.min_price, normalized.stats.max_price,
                normalized.currency>>, <<>>)
    ELSE Note("Prices represent the lowest available fares within selected period.",
              <<>>, <<>>)

\* search_calendar_prices from normalize_calendar_day_results on (lines 92-127)
CalendarNormalized(ids, normalized) ==
    IF normalized.raised # "" THEN SearchRaised(normalized.raised, "normalize")
    ELSE SearchReturned([BaseSearchResponse(ids) EXCEPT
            !.calendar = SelectSeq(normalized.calendar, CalendarDayValid),
            !.note = CalendarNote(normalized)])

\* lines 170-192
CheapestInsight(stats, currency) ==
    IF Truthy(stats.cheapest_date) /\ Truthy(stats.cheapest_mode)
    THEN Note("Best deal: date via mode at min currency. Price range: min - max currency. Total n options across m dates. Breakdown",
              <<stats.cheapest_date, stats.cheapest_mode, stats.min_price_overall,
                stats.max_price_overall, PyInt(stats.total_results),
                PyInt(stats.total_dates), currency>>, stats.by_mode)
    ELSE Note("No pricing data available for the selected date range and routes.",
              <<>>, <<>>)

\* CheapestPriceInfo(min_price=..., currency=...) for every (date, mode)
CheapestPriceInfoOf(entry) ==
    Pair(entry.key, [min_price |-> entry.value.min_price,
                     currency  |-> entry.value.currency])

CheapestPriceInfos(modes) == [i \in 1..Len(modes) |-> CheapestPriceInfoOf(modes[i])]

CheapestSummary(summary) ==
    [i \in 1..Len(summary) |-> Pair(summary[i].key, CheapestPriceInfos(summary[i].value))]

\* search_cheapest_summary from normalize_cheapest_summary_results on (lines
\* 151-201)
CheapestNormalized(ids, normalized, currency) ==
    IF normalized.raised # "" THEN SearchRaised(normalized.raised, "normalize")
    ELSE SearchReturned([BaseSearchResponse(ids) EXCEPT
            !.summary = CheapestSummary(normalized.summary),
            !.insight = CheapestInsight(normalized.stats, currency)])

\* search_fastest_summary from normalize_fastest_summary_results on (lines
\* 225-249): every FastestVsCheapestInfo is built from str, float and str
FastestNormalized(ids, normalized) ==
    IF normalized.raised # "" THEN SearchRaised(normalized.raised, "normalize")
    ELSE SearchReturned([BaseSearchResponse(ids) EXCEPT
            !.summary = normalized.summary,
            !.note = Note("This summary helps compare the trade-offs between speed and cost for different modes of transport.",
                          <<>>, <<>>)])

\* A search operation after its GET returned raw_data
SearchFinish(entry, ids, raw) ==
    CASE entry = "search_day_results" ->
           DayResultsShaped(ids, shape_day_results(raw))
      [] entry = "search_calendar_prices" ->
           CalendarNormalized(ids, normalize_calendar_day_results(raw))
      [] entry = "search_cheapest_summary" ->
           CheapestNormalized(ids, normalize_cheapest_summary_results(raw, DefaultCurrency),
                              DefaultCurrency)
      [] entry = "search_fastest_summary" ->
           FastestNormalized(ids, normalize_fastest_summary_results(raw, DefaultCurrency))

\* "except UpstreamApiError: raise" around the GET (lines 48-54, 84-90, 143-149,
\* 217-223)
SearchGot(entry, ids, resp) ==
    IF resp.status = "fail" THEN SearchRaised("UpstreamApiError", "search")
    ELSE SearchFinish(entry, ids, resp.payload)

\* The GET of the search endpoint completes and the operation runs to its end
SearchReturn(h) ==
    /\ pc = "search_wait"
    /\ replies' = Append(replies, get(h).status)
    /\ outcome' = SearchGot(op, found_ids, get(h))
    /\ pc' = "done"
    /\ UNCHANGED <<op, params, calls, http_attempts, resolve_calls, origin_ac, dest_ac,
                   found_ids, restVars>>

\* SearchBegin with the ids looked for before the dates are (the slip C12
\* rules out)
SearchBegin_EnsureFirst(entry, from_id, to_id, from_term, to_term, rejected) ==
    IF rejected.err # "" /\ Truthy(from_id) /\ Truthy(to_id)
    THEN /\ outcome' = SearchRaised(rejected.err, "date_range")
         /\ pc' = "done"
         /\ NoGet
         /\ UNCHANGED <<resolve_calls, found_ids>>
    ELSE EnsureBegin(entry, from_id, to_id, from_term, to_term)

\* A search operation up to its first await; rejected is what
\* validate_date_range gave (lines 69-72, 131-132, 205-206)
SearchBegin(entry, from_id, to_id, from_term, to_term, rejected) ==
    IF rejected.err # ""
    THEN /\ outcome' = SearchRaised(rejected.err, "date_range")
         /\ pc' = "done"
         /\ NoGet
         /\ UNCHANGED <<resolve_calls, found_ids>>
    ELSE EnsureBegin(entry, from_id, to_id, from_term, to_term)

\* search_day_results does not look at its dates (lines 34-36)
DatesChecked(entry, date_start, date_end) ==
    IF entry = "search_day_results" THEN Returned
    ELSE validate_date_range(date_start, date_end, MaxDaysOf(entry))

\* The tool entries SearchService.search_*(params)
SearchCall(entry, from_id, to_id, from_term, to_term, date_start, date_end) ==
    /\ pc = "idle"
    /\ op' = entry
    /\ params' = [NoParams EXCEPT !.from_id = from_id, !.to_id = to_id,
                                  !.from_term = from_term, !.to_term = to_term,
                                  !.date_start = date_start, !.date_end = date_end]
    /\ SearchBegin(entry, from_id, to_id, from_term, to_term,
                   DatesChecked(entry, date_start, date_end))
    /\ UNCHANGED <<replies, origin_ac, dest_ac, restVars>>

(***************************************************************************)
(* SpecSearch: one invocation of a search operation.                       *)
(***************************************************************************)
\* (date_start, date_end): 4, 30, 31 and 32 days apart, and a text that is no date
SearchDatePairs ==
    { <<IsoText(2024, 6, 1), IsoText(2024, 6, 5)>>,
      <<IsoText(2024, 6, 1), IsoText(2024, 7, 1)>>,
      <<IsoText(2024, 6, 1), IsoText(2024, 7, 2)>>,
      <<IsoText(2024, 6, 1), IsoText(2024, 7, 3)>>,
      <<<<"j", "u", "n", "e">>, IsoText(2024, 6, 5)>> }

\* Status codes tried: below, at and above the threshold of _make_request
StatusCodes == {200, 400, 404, 500}

\* What an exchange can be for the given decoded bodies
HttpReplies(bodies) ==
    { HttpReply(TRUE, 0, UpOther) }
      \cup { HttpReply(FALSE, code, body) : code \in StatusCodes, body \in bodies }

UpZero == RawRecord(PyInt(0), A, A, PyStr("Zero"), PyStr("location"), A, FALSE)

LocationHttp ==
    HttpReplies({ UpList(<<UpLoc7>>), UpList(<<UpCity5, UpLoc7>>), UpList(<<UpCity5>>),
                  UpList(<<UpZero>>),
                  UpDict(<<>>, <<>>, <<>>, <<>>, <<>>) })

FullTables == [carriers  |-> <<Carrier(PyInt(1), A, PyStr("SN"))>>,
               positions |-> <<DayPosition(PyInt(10), PyStr("Paris")),
                               DayPosition(Tx(<<"2", "0">>), PyNone)>>,
               segments  |-> <<SegOne, SegTwo, SegNum>>]

DayOf(outbound) ==
    DayData(FullTables.carriers, FullTables.positions, FullTables.segments, A,
            outbound, A, PyInt(10), A)

\* Day-results payloads: {}, no schedule, schedules that are all skipped,
\* schedules of which some or all are shaped
DaySamples ==
    { NoDayData, DayOf(PyList(<<>>)), DayOf(PyList(<<NotADict>>)),
      DayOf(PyList(<<SchedMixedKeys, SchedNullPrice>>)),
      DayOf(PyList(<<SchedPlain>>)), DayOf(PyList(<<SchedBadRefs, SchedRefs>>)) }

CalendarSamples ==
    { CalendarData(A, A),
      CalendarData(PyList(<<PriceDay(PyStr("a"), PyInt(1000)),
                            PriceDay(PyStr("b"), PyInt(2000))>>), A),
      CalendarData(PyList(<<PriceDay(PyInt(5), PyInt(700)),
                            PriceDay(PyStr("b"), PyInt(900))>>), PyStr("USD")),
      CalendarData(PyList(<<PriceDay(PyStr("a"), PyInt(0)),
                            PriceDay(PyStr("b"), PyInt(500))>>), A),
      CalendarData(PyList(<<PriceDay(PyNone, PyInt(5))>>), A),
      CalendarData(PyList(<<PriceDay(A, PyInt(400)),
                            PriceDay(PyStr("b"), PyInt(600))>>), A),
      CalendarData(PyList(<<PriceDay(PyStr("a"), PyNone),
                            PriceDay(PyStr("b"), PyInt(0))>>), A),
      CalendarData(PyList(<<PriceDay(PyStr("a"), PyInt(300))>>), PyInt(1)) }

CheapestSamples ==
    { SummaryData(A),
      SummaryData(DictOf(<<Pair("d1", DictOf(<<Pair("bus", PriceInfo(PyInt(0), PyInt(3)))>>))>>)),
      SummaryData(DictOf(<<Pair("d1", DictOf(<<Pair("bus", PriceInfo(PyInt(500), PyInt(3))),
                                               Pair("train", PriceInfo(PyInt(300), PyInt(1)))>>)),
                           Pair("d2", DictOf(<<Pair("bus", PriceInfo(PyInt(300), PyInt(2)))>>)),
                           Pair("d3", NotADict)>>)),
      SummaryData(DictOf(<<Pair("", DictOf(<<Pair("bus", PriceInfo(PyInt(500), PyInt(3)))>>))>>)),
      SummaryData(DictOf(<<Pair("d1", DictOf(<<Pair("bus", PriceInfo(PyInt(500), PyInt(0))),
                                               Pair("train", PriceInfo(PyInt(0), PyInt(2)))>>))>>)),
      SummaryData(DictOf(<<Pair("d1", DictOf(<<Pair("bus", PriceInfo(PyInt(400), PyInt(3))),
                                               Pair("train", PriceInfo(PyInt(0), PyInt(1)))>>)),
                           Pair("d2", DictOf(<<Pair("bus", PriceInfo(PyInt(700), PyInt(0)))>>)),
                           Pair("d3", DictOf(<<Pair("train", PriceInfo(PyInt(400), PyInt(2))),
                                               Pair("bus", PriceInfo(PyInt(900), PyInt(1)))>>))>>)),
      SummaryData(DictOf(<<Pair("d1", DictOf(<<Pair("bus", PriceInfo(PyNone, PyInt(3)))>>))>>)) }

FastestSamples ==
    { SummaryData(A),
      SummaryData(DictOf(<<Pair("d1", DictOf(<<Pair("bus",
          FastInfo(PyInt(2), FastSide(PyInt(500), PyInt(90)), FastSide(PyInt(0), PyInt(60))))>>))>>)),
      SummaryData(DictOf(<<Pair("d1", DictOf(<<Pair("bus",
          FastInfo(PyInt(2), NullSide, FastSide(PyInt(700), A)))>>))>>)),
      SummaryData(DictOf(<<Pair("d1", DictOf(<<
          Pair("bus", FastInfo(PyInt(2), FastSide(PyInt(500), PyInt(90)),
                               FastSide(PyInt(700), PyInt(60)))),
          Pair("train", FastInfo(PyInt(0), FastSide(PyInt(500), PyInt(90)),
                                 FastSide(PyInt(700), PyInt(60))))>>)),
                           Pair("d2", DictOf(<<
          Pair("bus", FastInfo(PyInt(3), FastSide(PyInt(0), PyInt(90)),
                               FastSide(PyInt(0), PyInt(60))))>>))>>)),
      SummaryData(DictOf(<<Pair("d1", DictOf(<<
          Pair("bus", FastInfo(PyInt(1), FastSide(PyInt(0), PyInt(90)),
                               FastSide(PyInt(800), PyInt(60)))),
          Pair("train", FastInfo(PyInt(1), FastSide(PyInt(0 - 5), A), NoSide))>>))>>)),
      SummaryData(DictOf(<<Pair("d1", DictOf(<<Pair("bus",
          FastInfo(PyNone, FastSide(PyInt(0), A), FastSide(PyInt(700), PyNone)))>>))>>)) }

\* The exchanges tried on the endpoint of the running operation
SearchHttp(entry) ==
    CASE entry = "search_day_results" ->
           HttpReplies({ SearchBody(d) : d \in DaySamples })
      [] entry = "search_calendar_prices" ->
           HttpReplies({ SearchBody(d) : d \in CalendarSamples })
      [] entry = "search_cheapest_summary" ->
           HttpReplies({ SearchBody(d) : d \in CheapestSamples })
      [] entry = "search_fastest_summary" ->
           HttpReplies({ SearchBody(d) : d \in FastestSamples })
      [] OTHER -> {}

SearchInit == Init

SearchNext ==
    \/ \E entry \in SearchOps, ids \in EnsureIdPairs, terms \in EnsureTermPairs,
          dates \in SearchDatePairs :
          SearchCall(entry, ids[1], ids[2], terms[1], terms[2], dates[1], dates[2])
    \/ \E h \in LocationHttp : OriginReturn(get(h))
    \/ \E h \in LocationHttp : DestReturn(get(h))
    \/ \E h \in SearchHttp(op) : SearchReturn(h)

SpecSearch == SearchInit /\ [][SearchNext]_vars

(***************************************************************************)
(* utils/metrics.py: trace_tool, and db/mongo/mongo.py: the metrics sink.  *)
(* The wrapper is cut at its await of the handler and at each call of      *)
(* save_metric_to_mongo, between which the sink may go down or come back.  *)
(* Of a record the model keeps tool_name, status, result_count and error   *)
(* (duration, context and timestamp are written and read by nobody).       *)
(***************************************************************************)
MetricRecord(tool_name, status, result_count, error) ==
    [tool_name |-> tool_name, status |-> status, result_count |-> result_count,
     error |-> error]

\* lines 21-27; result.get("result_count") of a dict
SuccessRecord(tool_name, result) ==
    MetricRecord(tool_name, "success", PyGet(result.result_count), NoExc)

\* lines 38-47
FailureRecord(tool_name, exc) == MetricRecord(tool_name, "failure", PyNone, exc)

\* insert_one raises when the sink cannot be reached (mongo.py line 28)
SinkError == Exc("PyMongoError", "insert_one failed")

ToolReturned(result) == [NoToolOutcome EXCEPT !.kind = "returned", !.result = result]

ToolRaised(exc) == [NoToolOutcome EXCEPT !.kind = "raised", !.exc = exc]

\* Envelope with the exception raised again instead (the slip C15 rules out)
Envelope_Reraise(exc) == ToolRaised(exc)

\* return {"error": {"type": type(exc).__name__, "message": str(exc)}} (line 53)
Envelope(exc) == [NoToolOutcome EXCEPT !.kind = "returned", !.error = exc]

\* wrapped(...) up to "await fn(*args, **kwargs)" (lines 12-18)
TraceCall(tool) ==
    /\ t_pc = "off"
    /\ t_pc' = "handler"
    /\ handler' = [NoHandler EXCEPT !.tool = tool]
    /\ UNCHANGED <<sink, metrics, tool_outcome, caught>>
    /\ UNCHANGED <<locVars, searchVars, normVars, dateVars, shapeVars, repVars, shutVars>>

\* The handler returns result (line 18)
HandlerReturn(result) ==
    /\ t_pc = "handler"
    /\ handler' = [handler EXCEPT !.kind = "returns", !.result = result]
    /\ t_pc' = "save_success"
    /\ UNCHANGED <<sink, metrics, tool_outcome, caught>>
    /\ UNCHANGED <<locVars, searchVars, normVars, dateVars, shapeVars, repVars, shutVars>>

\* The handler raises exc, an Exception: "except Exception as exc" (line 34)
HandlerRaise(exc) ==
    /\ t_pc = "handler"
    /\ handler' = [handler EXCEPT !.kind = "raises", !.exc = exc]
    /\ caught' = exc
    /\ t_pc' = "save_failure"
    /\ UNCHANGED <<sink, metrics, tool_outcome>>
    /\ UNCHANGED <<locVars, searchVars, normVars, dateVars, shapeVars, repVars, shutVars>>

\* save_metric_to_mongo of the success record, inside the try (lines 21-32):
\* stored, the result is returned; refused, the except clause catches the
\* sink's exception
SaveSuccess ==
    /\ t_pc = "save_success"
    /\ IF sink.up
       THEN /\ metrics' = Append(metrics, SuccessRecord(handler.tool, handler.result))
            /\ tool_outcome' = ToolReturned(handler.result)
            /\ t_pc' = "done"
            /\ UNCHANGED <<sink, caught>>
       ELSE /\ sink' = [sink EXCEPT !.refused = @ + 1]
            /\ caught' = SinkError
            /\ t_pc' = "save_failure"
            /\ UNCHANGED <<metrics, tool_outcome>>
    /\ UNCHANGED handler
    /\ UNCHANGED <<locVars, searchVars, normVars, dateVars, shapeVars, repVars, shutVars>>

\* save_metric_to_mongo of the failure record, inside the except clause
\* (lines 34-53): stored, the envelope is returned; refused, the sink's
\* exception leaves the wrapper
SaveFailure ==
    /\ t_pc = "save_failure"
    /\ IF sink.up
       THEN /\ metrics' = Append(metrics, FailureRecord(handler.tool, caught))
            /\ tool_outcome' = Envelope(caught)
            /\ sink' = sink
       ELSE /\ sink' = [sink EXCEPT !.refused = @ + 1]
            /\ tool_outcome' = ToolRaised(SinkError)
            /\ metrics' = metrics
    /\ t_pc' = "done"
    /\ UNCHANGED <<handler, caught>>
    /\ UNCHANGED <<locVars, searchVars, normVars, dateVars, shapeVars, repVars, shutVars>>

\* The sink goes down or comes back while an invocation runs
SinkChange ==
    /\ t_pc \in {"handler", "save_success", "save_failure"}
    /\ sink' = [sink EXCEPT !.up = ~@]
    /\ UNCHANGED <<t_pc, handler, metrics, tool_outcome, caught>>
    /\ UNCHANGED <<locVars, searchVars, normVars, dateVars, shapeVars, repVars, shutVars>>

(***************************************************************************)
(* SpecTrace: one invocation of a tool wrapped by trace_tool.              *)
(***************************************************************************)
\* mcp/tools: the functions decorated with @trace_tool
ToolNames ==
    { "resolve_positions", "search_day_results", "search_calendar_prices",
      "search_cheapest_summary", "search_fastest_summary" }

HandlerResults ==
    { ToolResult("response", PyAbsent), ToolResult("response", PyInt(0)),
      ToolResult("response", PyInt(3)), ToolResult("response", PyNone) }

HandlerErrors ==
    { Exc("InvalidInputError", "Date range exceeds the maximum"),
      Exc("UpstreamApiError", "HTTP error 500"),
      Exc("LocationResolutionError", "Could not resolve locations"),
      Exc("ValueError", "Autocomplete term must be at least 2 characters"),
      Exc("IndexError", "list index out of range"),
      Exc("TypeError", "unsupported format string passed to NoneType.__format__") }

TraceInit == Init

TraceNext ==
    \/ \E tool \in ToolNames : TraceCall(tool)
    \/ \E result \in HandlerResults : HandlerReturn(result)
    \/ \E exc \in HandlerErrors : HandlerRaise(exc)
    \/ SaveSuccess
    \/ SaveFailure
    \/ SinkChange

SpecTrace == TraceInit /\ [][TraceNext]_vars

(***************************************************************************)
(* utils/normalizer.py: the five normalisers applied again and again to    *)
(* one payload object.  The module has no module-level variable (its only  *)
(* top-level statements are imports and the six defs), so a call reads     *)
(* nothing but its argument.                                               *)
(***************************************************************************)
MaxApply == 2    \* how many times the normaliser is applied to the payload

Normalizers ==
    { "normalize_positions", "shape_day_results", "normalize_calendar_day_results",
      "normalize_cheapest_summary_results", "normalize_fastest_summary_results" }

\* What a call of fn on raw gives: the value returned or the exception raised
Normalized(fn, raw) ==
    CASE fn = "normalize_positions" -> normalize_positions(raw)
      [] fn = "shape_day_results" -> shape_day_results(raw)
      [] fn = "normalize_calendar_day_results" -> normalize_calendar_day_results(raw)
      [] fn = "normalize_cheapest_summary_results" ->
           normalize_cheapest_summary_results(raw, DefaultCurrency)
      [] fn = "normalize_fastest_summary_results" ->
           normalize_fastest_summary_results(raw, DefaultCurrency)

\* InputAfter with normalize_positions taking the records off the list it is
\* given as it reads them (the slip C18 rules out)
InputAfter_Drained(fn, raw) == IF fn = "normalize_positions" THEN <<>> ELSE raw

\* What a call of fn leaves in the payload object: every statement that
\* writes (append, extend, sort, item assignment, +=) writes a list or dict
\* the call itself built (lines 61, 118, 132, 161, 235, 320-385, 473-487)
InputAfter(fn, raw) == raw

RepeatCall ==
    /\ Len(rep_out) < MaxApply
    /\ rep_out' = Append(rep_out, Normalized(rep_fn, rep_raw.now))
    /\ rep_raw' = [rep_raw EXCEPT !.now = InputAfter(rep_fn, @)]
    /\ UNCHANGED <<rep_fn, locVars, searchVars, normVars, dateVars, shapeVars, traceVars, shutVars>>

(***************************************************************************)
(* SpecRepeat: a normaliser applied MaxApply times to one payload.         *)
(***************************************************************************)
RepeatPayloads(fn) ==
    CASE fn = "normalize_positions" -> SeqsUpTo(UpRecs, MaxCand)
      [] fn = "shape_day_results" -> DaySamples
      [] fn = "normalize_calendar_day_results" -> CalendarSamples
      [] fn = "normalize_cheapest_summary_results" -> CheapestSamples
      [] fn = "normalize_fastest_summary_results" -> FastestSamples

RepeatInit ==
    /\ rep_fn \in Normalizers
    /\ rep_raw \in { Payload(raw) : raw \in RepeatPayloads(rep_fn) }
    /\ rep_out = <<>>
    /\ LocInit
    /\ ShutIdle
    /\ NormIdle
    /\ DateIdle
    /\ ShapeIdle
    /\ TraceIdle

RepeatNext == RepeatCall

SpecRepeat == RepeatInit /\ [][RepeatNext]_vars

(***************************************************************************)
(* main.py and factory/singleton_factory.py: the process serves tool       *)
(* invocations, then mcp_router.run ends and shutdown_clients runs.        *)
(***************************************************************************)
MaxServed == 2    \* tool invocations served before the run ends

\* The GETs one tool invocation sends through the location client (l) and
\* through the search client (d): resolve_positions looks up the origin and,
\* if that worked, the destination; a search operation resolves the terms
\* unless both ids were given, and sends its search GET when it has two ids
GetsOf(tool) ==
    IF tool = "resolve_positions"
    THEN { [l |-> l, d |-> 0] : l \in 0..2 }
    ELSE { [l |-> l, d |-> 0] : l \in 0..2 } \cup { [l |-> l, d |-> 1] : l \in {0, 2} }

\* _make_request (http/discovery_client.py line 32): one more request sent
Requested(client, n) == [client EXCEPT !.requests = @ + n]

\* singleton_factory.py lines 12-16 and 19-23: the instance the getter
\* returns, which is the global afterwards
get_lclient(instance) == IF instance.made THEN instance ELSE NewClient

get_dclient(instance) == IF instance.made THEN instance ELSE NewClient

\* How the functions called by shutdown_clients are defined: the getters of
\* singleton_factory.py with "def" (lines 12, 19), close with "async def"
\* (discovery_client.py line 26)
AsyncDefs == {"close"}

\* "await f()": a call of an async def gives a coroutine, which can be
\* awaited; a call of a def gives the returned object, and awaiting an object
\* without __await__ raises TypeError
AwaitRaises(fn) == IF fn \in AsyncDefs THEN "" ELSE "TypeError"

\* DiscoveryApiClient.close (lines 26-27)
close(client) == [client EXCEPT !.closed = TRUE]

\* main.py lines 54-67: mcp_router.run is serving
MainStart ==
    /\ s_pc = "off"
    /\ s_pc' = "serving"
    /\ UNCHANGED <<client_instance, discovery_client, served, swallowed>>
    /\ UNCHANGED <<locVars, searchVars, normVars, dateVars, shapeVars, traceVars, repVars>>

\* One tool invocation, with the GETs it sends
Serve(tool, gets) ==
    /\ s_pc = "serving"
    /\ served < MaxServed
    /\ served' = served + 1
    /\ client_instance' = Requested(client_instance, gets.l)
    /\ discovery_client' = Requested(discovery_client, gets.d)
    /\ UNCHANGED <<s_pc, swallowed>>
    /\ UNCHANGED <<locVars, searchVars, normVars, dateVars, shapeVars, traceVars, repVars>>

\* main.py lines 69-72: run() returned or raised, and the finally clause
\* starts shutdown_clients
RunEnds ==
    /\ s_pc = "serving"
    /\ s_pc' = "get_lclient"
    /\ UNCHANGED <<client_instance, discovery_client, served, swallowed>>
    /\ UNCHANGED <<locVars, searchVars, normVars, dateVars, shapeVars, traceVars, repVars>>

\* line 37, the call: get_lclient()
CallGetLClient ==
    /\ s_pc = "get_lclient"
    /\ client_instance' = get_lclient(client_instance)
    /\ s_pc' = "await_lclient"
    /\ UNCHANGED <<discovery_client, served, swallowed>>
    /\ UNCHANGED <<locVars, searchVars, normVars, dateVars, shapeVars, traceVars, repVars>>

\* lines 37-40: the await of what get_lclient() gave; if it raises, line 38
\* is not run and the except clause swallows the exception
AwaitLClient ==
    /\ s_pc = "await_lclient"
    /\ IF AwaitRaises("get_lclient") = ""
       THEN /\ client_instance' = close(client_instance)
            /\ UNCHANGED swallowed
       ELSE /\ swallowed' = Append(swallowed, AwaitRaises("get_lclient"))
            /\ UNCHANGED client_instance
    /\ s_pc' = "get_dclient"
    /\ UNCHANGED <<discovery_client, served>>
    /\ UNCHANGED <<locVars, searchVars, normVars, dateVars, shapeVars, traceVars, repVars>>

\* line 43, the call: get_dclient()
CallGetDClient ==
    /\ s_pc = "get_dclient"
    /\ discovery_client' = get_dclient(discovery_client)
    /\ s_pc' = "await_dclient"
    /\ UNCHANGED <<client_instance, served, swallowed>>
    /\ UNCHANGED <<locVars, searchVars, normVars, dateVars, shapeVars, traceVars, repVars>>

\* lines 43-46
AwaitDClient ==
    /\ s_pc = "await_dclient"
    /\ IF AwaitRaises("get_dclient") = ""
       THEN /\ discovery_client' = close(discovery_client)
            /\ UNCHANGED swallowed
       ELSE /\ swallowed' = Append(swallowed, AwaitRaises("get_dclient"))
            /\ UNCHANGED discovery_client
    /\ s_pc' = "log_closed"
    /\ UNCHANGED <<client_instance, served>>
    /\ UNCHANGED <<locVars, searchVars, normVars, dateVars, shapeVars, traceVars, repVars>>

\* line 48: the log line, after which shutdown_clients has completed
LogClosed ==
    /\ s_pc = "log_closed"
    /\ s_pc' = "done"
    /\ UNCHANGED <<client_instance, discovery_client, served, swallowed>>
    /\ UNCHANGED <<locVars, searchVars, normVars, dateVars, shapeVars, traceVars, repVars>>

(***************************************************************************)
(* SpecShutdown: the process from the start of main() to the end of        *)
(* shutdown_clients.                                                       *)
(***************************************************************************)
ShutdownInit == Init

ShutdownNext ==
    \/ MainStart
    \/ \E tool \in ToolNames : \E gets \in GetsOf(tool) : Serve(tool, gets)
    \/ RunEnds
    \/ CallGetLClient
    \/ AwaitLClient
    \/ CallGetDClient
    \/ AwaitDClient
    \/ LogClosed

SpecShutdown == ShutdownInit /\ [][ShutdownNext]_vars

(***************************************************************************)
(*                              The claims                                 *)
(***************************************************************************)

\* out is raw's appended records, in raw's order
KeepsOrder(raw, out) ==
    \E f \in [1..Len(out) -> 1..Len(raw)] :
        /\ \A i, j \in 1..Len(out) : i < j => f[i] < f[j]
        /\ \A k \in 1..Len(out) : /\ NormalizeOne(raw[f[k]]).act = "append"
                                  /\ NormalizeOne(raw[f[k]]).pos = out[k]

\* C1: every call of normalize_positions returns (no record aborts the batch),
\* the positions returned plus the records skipped number the input records,
\* and the positions returned keep the order of the input.
C1_BatchNeverAborts ==
    norm_result.status = "done" =>
        /\ norm_result.raised = ""
        /\ Len(norm_result.positions) + norm_result.skipped = Len(raw_positions)
        /\ KeepsOrder(raw_positions, norm_result.positions)

\* What does hold of normalize_positions: whenever it returns, the count and the
\* order are as C1 says.
C1_CountWhenReturned ==
    (norm_result.status = "done" /\ norm_result.raised = "") =>
        /\ Len(norm_result.positions) + norm_result.skipped = Len(raw_positions)
        /\ KeepsOrder(raw_positions, norm_result.positions)

\* C2: every Position normalize_positions returns has a non-negative id.
C2_IdsNonNegative ==
    norm_result.status = "done" =>
        \A i \in 1..Len(norm_result.positions) : norm_result.positions[i].id >= 0

RECURSIVE OthersThan(_, _)
\* the members of candidates whose id is not id, in order
OthersThan(candidates, id) ==
    IF candidates = <<>> THEN <<>>
    ELSE IF Head(candidates).id = id THEN OthersThan(Tail(candidates), id)
    ELSE <<Head(candidates)>> \o OthersThan(Tail(candidates), id)

\* best_guess and alternatives are what C3 says of candidates
SelectedAsClaimed(ac) ==
    /\ ac.candidates = <<>> => ~ac.best_guess.some /\ ac.alternatives = <<>>
    /\ ac.candidates # <<>> =>
         /\ ac.best_guess.some
         /\ \E i \in 1..Len(ac.candidates) :
               /\ ac.candidates[i] = ac.best_guess.pos
               /\ IF \E j \in 1..Len(ac.candidates) : ac.candidates[j].type = "location"
                  THEN /\ ac.candidates[i].type = "location"
                       /\ \A j \in 1..(i - 1) : ac.candidates[j].type # "location"
                  ELSE i = 1
         /\ ac.alternatives = OthersThan(ac.candidates, ac.best_guess.pos.id)
         /\ \A k \in 1..Len(ac.alternatives) :
               ac.alternatives[k].id # ac.best_guess.pos.id

\* C3: whenever positions_autocomplete returns, best_guess is the first
\* candidate of type "location", else the first candidate, else null, and
\* alternatives are, in order, exactly the candidates whose id is not
\* best_guess.id.
C3_BestGuessAndAlternatives ==
    /\ (op = "autocomplete" /\ outcome.kind = "returned") => SelectedAsClaimed(outcome.ac)
    /\ pc = "dest_wait" => SelectedAsClaimed(origin_ac)
    /\ (pc = "done" /\ Len(replies) = 2 /\ dest_ac.err = "") => SelectedAsClaimed(dest_ac)

\* C3's case: a location that is not the first candidate is the best guess, and
\* the candidate before it is the one alternative.
C3_Witness ==
    /\ op = "autocomplete" /\ outcome.kind = "returned"
    /\ Len(outcome.ac.candidates) = 2
    /\ outcome.ac.candidates[1].type # "location"
    /\ outcome.ac.best_guess.pos = outcome.ac.candidates[2]
    /\ outcome.ac.alternatives = <<outcome.ac.candidates[1]>>

\* C4: a term that validation rejects leaves positions_autocomplete with no
\* upstream request issued, and a request is only ever issued for a term that
\* validation accepted.
C4_ValidationBeforeUpstream ==
    op = "autocomplete" =>
        /\ (outcome.kind = "raised" /\ outcome.stage = "validate") => calls = <<>>
        /\ validate_autocomplete_params(params.term) # "" => calls = <<>>

\* C4's case: the one-character term was rejected.
C4_Witness ==
    /\ op = "autocomplete" /\ pc = "done"
    /\ Len(params.term) = 1
    /\ outcome.kind = "raised" /\ outcome.stage = "validate"

\* C5: autocomplete validation raises InvalidInputError exactly for the terms
\* whose trimmed length is below 2 and accepts every other term, and resolve
\* validation raises the same InvalidInputError.
C5_BadInputExactlyWhenShort ==
    /\ (op = "autocomplete" /\ pc # "idle") =>
          IF Len(strip(params.term)) < 2
          THEN /\ outcome.kind = "raised" /\ outcome.stage = "validate"
               /\ outcome.err = "InvalidInputError"
          ELSE outcome.stage # "validate"
    /\ (op = "resolve" /\ outcome.stage = "resolve_validate") =>
          outcome.err = "InvalidInputError"

\* The requests resolve_positions may have issued: origin, then destination
ResolveRequests == <<Request(params.from_term.cs), Request(params.to_term.cs)>>

\* C6: resolve_positions requests the origin before the destination; once the
\* origin request failed no destination request is issued; and after a failed
\* request the operation has raised and returns no response.
C6_SequentialAndNoPartial ==
    op \in {"resolve", "ensure"} =>
        /\ Len(calls) <= 2 /\ calls = SubSeq(ResolveRequests, 1, Len(calls))
        /\ (replies # <<>> /\ replies[1] = "fail") => Len(calls) = 1
        /\ (\E i \in 1..Len(replies) : replies[i] = "fail") =>
               /\ pc = "done" /\ outcome.kind = "raised"
               /\ outcome.resolved = NoResolved /\ outcome.ids = NoIds
        /\ (op = "resolve" /\ outcome.kind = "returned") =>
               Len(calls) = 2 /\ replies = <<"ok", "ok">>

\* C6's case: the origin request failed.
C6_Witness ==
    /\ op = "resolve" /\ pc = "done"
    /\ replies = <<"fail">> /\ Len(calls) = 1
    /\ outcome.kind = "raised"

\* resolve_positions has produced its response
ResolveResponded ==
    /\ pc = "done" /\ op \in {"resolve", "ensure"}
    /\ Len(replies) = 2
    /\ outcome.kind = "returned" \/ outcome.stage = "ensure_missing"

\* One side of the response is what C7 says
SideAsClaimed(ac, info, id) ==
    /\ info.ranked_candidates =
          (IF ac.best_guess.some THEN <<ac.best_guess.pos>> ELSE <<>>) \o ac.alternatives
    /\ info.best_match.some => id = PyInt(info.best_match.pos.id)
    /\ ~info.best_match.some => id = PyNone
    /\ id = PyNone <=> info.ranked_candidates = <<>>

\* C7: in every response of resolve_positions, on each side ranked_candidates
\* is best_guess (unless null) followed by the alternatives, the suggestion id
\* is best_match.id, and the suggestion id is null exactly when
\* ranked_candidates is empty.
C7_RankedAndSuggestion ==
    ResolveResponded =>
        /\ SideAsClaimed(origin_ac, outcome.resolved.origin,
                         outcome.resolved.suggestion.from_id)
        /\ SideAsClaimed(dest_ac, outcome.resolved.destination,
                         outcome.resolved.suggestion.to_id)

\* C7's case: the origin resolved to the position with id 0 and the
\* destination had no candidate.
C7_Witness ==
    /\ ResolveResponded /\ op = "resolve"
    /\ outcome.resolved.suggestion.from_id = PyInt(0)
    /\ outcome.resolved.origin.ranked_candidates # <<>>
    /\ outcome.resolved.suggestion.to_id = PyNone
    /\ outcome.resolved.destination.ranked_candidates = <<>>

\* C8: given two numeric ids (any non-negative integers), _ensure_position_ids
\* returns exactly (from_id, to_id) and calls neither the resolution service
\* nor the upstream, whatever the terms.
C8_IdsUsedDirectly ==
    (op = "ensure" /\ params.from_id.t = "int" /\ params.to_id.t = "int"
       /\ params.from_id.n >= 0 /\ params.to_id.n >= 0) =>
        /\ pc = "done" /\ outcome.kind = "returned"
        /\ outcome.ids = [from_id |-> params.from_id, to_id |-> params.to_id]
        /\ resolve_calls = 0 /\ calls = <<>>

IdsSupplied == params.from_id.t = "int" /\ params.to_id.t = "int"
TermSupplied(term) == term.t = "text" /\ term.cs # <<>>
TermsSupplied == TermSupplied(params.from_term) /\ TermSupplied(params.to_term)

\* resolution did not give both ids: it raised, or a suggested id is null
ResolutionLeftIdMissing ==
    \/ outcome.stage \in {"resolve_validate", "validate", "upstream", "normalize"}
    \/ outcome.resolved.suggestion.from_id = PyNone
    \/ outcome.resolved.suggestion.to_id = PyNone

\* C9: _ensure_position_ids raises, and then LocationResolutionError, in
\* exactly two cases: (a) terms supplied, ids not both supplied, and
\* resolution left an id missing; (b) neither pair complete, with no
\* resolution and no upstream call.  Otherwise it returns a pair, which after
\* a resolution is the suggestion.  (Stated for the calls that are not given
\* an id of 0, which C8 is about.)
C9_FailsInExactlyTwoCases ==
    (op = "ensure" /\ pc = "done" /\ params.from_id # PyInt(0)
       /\ params.to_id # PyInt(0)) =>
        /\ outcome.kind = "raised" => outcome.err = "LocationResolutionError"
        /\ outcome.kind = "raised" <=>
              \/ TermsSupplied /\ ~IdsSupplied /\ ResolutionLeftIdMissing
              \/ ~TermsSupplied /\ ~IdsSupplied
        /\ (~TermsSupplied /\ ~IdsSupplied) => resolve_calls = 0 /\ calls = <<>>
        /\ (outcome.kind = "returned" /\ resolve_calls > 0) =>
              outcome.ids = outcome.resolved.suggestion

(***************************************************************************)
(* The calendar of the years the date texts lie in, told day by day: what  *)
(* a text names and how many days lie between two days are read off it,    *)
(* not off the ordinal arithmetic of the model.                            *)
(***************************************************************************)
CalendarYears == {2023, 2024}

MonthTable(y) ==
    IF y = 2024 THEN <<31, 29, 31, 30, 31, 30, 31, 31, 30, 31, 30, 31>>
    ELSE <<31, 28, 31, 30, 31, 30, 31, 31, 30, 31, 30, 31>>

CalendarDays ==
    { day \in CalendarYears \X (1..12) \X (1..31) : day[3] <= MonthTable(day[1])[day[2]] }

Before(a, b) ==
    \/ a[1] < b[1]
    \/ a[1] = b[1] /\ a[2] < b[2]
    \/ a[1] = b[1] /\ a[2] = b[2] /\ a[3] < b[3]

NamesADay(text) == \E day \in CalendarDays : IsoText(day[1], day[2], day[3]) = text
DayNamed(text) == CHOOSE day \in CalendarDays : IsoText(day[1], day[2], day[3]) = text

\* end - start in whole days
DaysApart(start, end) ==
    IF Before(end, start)
    THEN 0 - Cardinality({ day \in CalendarDays :
                             (day = end \/ Before(end, day)) /\ Before(day, start) })
    ELSE Cardinality({ day \in CalendarDays :
                         (day = start \/ Before(start, day)) /\ Before(day, end) })

DateFailsAsClaimed(start, end) ==
    IF NamesADay(start) /\ NamesADay(end)
    THEN date_result.err # "" <=>
            DaysApart(DayNamed(start), DayNamed(end)) > date_args.max_days
    ELSE date_result.err = "InvalidInputError" /\ date_result.error_type = "bad_input"

\* C10: validate_date_range on two texts that name days fails exactly when
\* end - start in whole days is greater than max_days (a difference equal to
\* max_days, or a negative one, is accepted); when a text names no day it
\* fails with the bad_input error.
C10_FailsIffLongerThanMax ==
    date_result.status = "done" => DateFailsAsClaimed(date_args.start, date_args.end)

\* C10's case: 2024-06-01 to 2024-07-02 is 31 days, accepted under a maximum
\* of 31.
C10_Witness ==
    /\ date_result.status = "done" /\ date_result.err = ""
    /\ date_args = [start |-> IsoText(2024, 6, 1), end |-> IsoText(2024, 7, 2),
                    max_days |-> 31]
    /\ DaysApart(<<2024, 6, 1>>, <<2024, 7, 2>>) = 31

TooLong(start, end) ==
    /\ NamesADay(start) /\ NamesADay(end)
    /\ DaysApart(DayNamed(start), DayNamed(end)) > date_args.max_days

\* C11: a date range longer than the maximum is reported with the error kind
\* RangeExceeded ("range_exceeded"), which differs from the kind reported for
\* an unparsable date ("bad_input").
C11_RangeExceededKind ==
    (date_result.status = "done" /\ TooLong(date_args.start, date_args.end))
        => /\ date_result.err = "RangeExceeded"
           /\ date_result.error_type = "range_exceeded"

\* What the code does instead: the too-long range and the unparsable date both
\* end in InvalidInputError with error_type "bad_input"; only the hint differs.
C11_SameKindAsBadInput ==
    (date_result.status = "done" /\ date_result.err # "")
        => /\ date_result.err = "InvalidInputError"
           /\ date_result.error_type = "bad_input"
           /\ (date_result.hint # "" <=> TooLong(date_args.start, date_args.end))

\* The list under one of the three schedule keys, empty when missing or null
ListUnder(v) == IF v.t = "list" THEN v.cs ELSE <<>>

\* The schedules in the claimed order: combined, outbound, inbound
ClaimedSchedules ==
    ListUnder(raw_data.combinedSchedules) \o ListUnder(raw_data.outboundSchedules)
        \o ListUnder(raw_data.inboundSchedules)

\* The schedule on its own gives an itinerary
ShapesAlone(sched) == ShapeSchedule(raw_data, sched).made

Increasing(idx) == \A k \in 1..(Len(idx) - 1) : idx[k] < idx[k + 1]

EachFromItsSchedule(r) ==
    /\ Len(r.from_index) = Len(r.results)
    /\ Increasing(r.from_index)
    /\ \A n \in 1..Len(ClaimedSchedules) :
          (\E k \in 1..Len(r.from_index) : r.from_index[k] = n)
              <=> ShapesAlone(ClaimedSchedules[n])
    /\ \A k \in 1..Len(r.results) :
          /\ r.from_index[k] \in 1..Len(ClaimedSchedules)
          /\ r.results[k] =
                ShapeSchedule(raw_data, ClaimedSchedules[r.from_index[k]]).itinerary

\* C19: shape_day_results (its lookup lists holding records) goes through the
\* schedules in the order combined, outbound, inbound; each schedule that is
\* not a record or whose derivation raises is counted as an error and left
\* out, whatever its siblings are: itineraries + errors = schedules, and the
\* itineraries are those of the schedules that shape on their own, in the
\* order of their schedules.
C19_EachScheduleOnItsOwn ==
    (shape_result.status = "done" /\ TablesAreDicts(raw_data))
        => /\ shape_result.raised = ""
           /\ Len(shape_result.results) + shape_result.errors_count
                 = Len(ClaimedSchedules)
           /\ EachFromItsSchedule(shape_result)

\* What holds of C19: the returned list is made of the itineraries of the
\* schedules that shape on their own, in order, and the error count is the
\* number of schedules, the kept ones included.
C19_ListFromEachSchedule ==
    (shape_result.status = "done" /\ TablesAreDicts(raw_data))
        => /\ shape_result.raised = ""
           /\ shape_result.errors_count = Len(ClaimedSchedules)
           /\ EachFromItsSchedule(shape_result)

\* C19's case: schedules under all three keys, a failing schedule between two
\* that are kept.
C19_Witness ==
    /\ shape_result.status = "done" /\ shape_result.raised = ""
    /\ Truthy(raw_data.combinedSchedules) /\ Truthy(raw_data.inboundSchedules)
    /\ raw_data.outboundSchedules = PyList(<<SchedNoTimes, SchedPlain>>)
    /\ shape_result.from_index = <<1, 3, 4>>
    /\ shape_result.errors_count = 4

\* A schedule record all of whose fields, where present, hold what the
\* upstream documents for them
WellFormed(sched) ==
    /\ IsDict(sched)
    /\ sched.id.t \in {"absent", "int", "text"}
    /\ sched.segmentIDs.t \in {"absent", "list"}
    /\ \A i \in 1..Len(sched.segmentIDs.cs) : sched.segmentIDs.cs[i].t \in {"int", "text"}
    /\ sched.departureAt.t \in {"absent", "text"}
    /\ sched.arrivalAt.t \in {"absent", "text"}
    /\ sched.travelMode.t \in {"absent", "str"}
    /\ sched.priceCents.t \in {"absent", "int"}
    /\ sched.currency.t \in {"absent", "str"}
    /\ sched.duration.t \in {"absent", "int"}

\* No reference of the schedule names a segment of the payload
ReferencesNoSegment(sched) ==
    \A i \in 1..Len(sched.segmentIDs.cs) :
        \A j \in 1..Len(raw_data.segments) :
            py_str(sched.segmentIDs.cs[i]) # py_str(PyGet(raw_data.segments[j].id))

OneItineraryFromFallbacks(r, n, sched) ==
    /\ Cardinality({ k \in 1..Len(r.from_index) : r.from_index[k] = n }) = 1
    /\ \A k \in 1..Len(r.results) :
          (r.from_index[k] = n /\ sched.travelMode.t = "absent"
                               /\ sched.duration.t = "absent")
              => /\ r.results[k].mode = PyStr("unknown")
                 /\ r.results[k].duration = PyText(<<"0">>)

\* C20: a well-formed schedule record whose segmentIDs name no segment of the
\* payload (or that has no segmentIDs) gives exactly one itinerary, with mode
\* "unknown" and duration "0" when it has no travelMode and no duration.
C20_UnmatchedScheduleKept ==
    (shape_result.status = "done" /\ TablesAreDicts(raw_data))
        => \A n \in 1..Len(ClaimedSchedules) :
              (WellFormed(ClaimedSchedules[n]) /\ ReferencesNoSegment(ClaimedSchedules[n]))
                  => OneItineraryFromFallbacks(shape_result, n, ClaimedSchedules[n])

\* What holds of the code: the same for the schedules that carry both
\* departureAt and arrivalAt.
C20_KeptWhenTimesGiven ==
    (shape_result.status = "done" /\ TablesAreDicts(raw_data))
        => \A n \in 1..Len(ClaimedSchedules) :
              ( /\ WellFormed(ClaimedSchedules[n])
                /\ ReferencesNoSegment(ClaimedSchedules[n])
                /\ ClaimedSchedules[n].departureAt.t = "text"
                /\ ClaimedSchedules[n].arrivalAt.t = "text" )
                  => OneItineraryFromFallbacks(shape_result, n, ClaimedSchedules[n])

\* The invocation is a search operation that checks its dates and was given a
\* range validate_date_range refuses
RangeRejected ==
    /\ op \in SearchOps \ {"search_day_results"}
    /\ DatesChecked(op, params.date_start, params.date_end).err # ""

ThirtyOneDays ==
    /\ params.date_start = IsoText(2024, 6, 1)
    /\ params.date_end = IsoText(2024, 7, 2)

\* C12: in search_calendar_prices (max 31 days), search_cheapest_summary and
\* search_fastest_summary (max 30 days) a rejected date range ends the
\* invocation with InvalidInputError before any location-resolution call and any
\* upstream call; a range of 31 days is rejected by the two summaries only.
C12_DatesBeforeAnyCall ==
    /\ RangeRejected
          => /\ pc = "done"
             /\ outcome.kind = "raised" /\ outcome.err = "InvalidInputError"
             /\ resolve_calls = 0
             /\ calls = <<>> /\ http_attempts = 0 /\ replies = <<>>
    /\ (op \in SearchOps \ {"search_day_results"} /\ ThirtyOneDays)
          => (RangeRejected <=> op # "search_calendar_prices")

\* C12's case: a summary refuses a range of 31 days that came with terms to
\* resolve and no ids.
C12_Witness ==
    /\ op = "search_cheapest_summary" /\ pc = "done"
    /\ ThirtyOneDays
    /\ outcome.stage = "date_range"
    /\ Truthy(params.from_term) /\ Truthy(params.to_term)
    /\ ~Truthy(params.from_id)

\* The search GET of the invocation has been answered with a body
SearchAnswered(endpoint) ==
    /\ pc = "done"
    /\ calls # <<>> /\ calls[Len(calls)].endpoint = endpoint
    /\ Len(replies) = Len(calls) /\ replies[Len(replies)] = "ok"

DayResultsNote ==
    Note("Prices are estimates and subject to change. Times are local to departure/arrival cities.",
         <<>>, <<>>)

\* C13: search_day_results, once the ids are resolved and the upstream call
\* succeeded, returns a response with the fixed advisory note, whatever the
\* payload, a payload with no schedule or with every schedule skipped included.
C13_DayResultsAlwaysReturns ==
    (op = "search_day_results" /\ SearchAnswered("SEARCH_DAY_RESULTS_ENDPOINT"))
        => /\ outcome.kind = "returned"
           /\ outcome.response.note = DayResultsNote

\* What holds of the code: the response is returned when at least one
\* itinerary was shaped, and IndexError is raised when none was.
C13_ReturnsWhenSomeShaped ==
    (op = "search_day_results" /\ SearchAnswered("SEARCH_DAY_RESULTS_ENDPOINT"))
        => \/ /\ outcome.kind = "returned"
              /\ outcome.response.note = DayResultsNote
              /\ outcome.response.results # <<>>
           \/ /\ outcome.kind = "raised" /\ outcome.err = "IndexError"

Failing(h) == h.transport_error \/ h.status_code >= 400

UpstreamUnavailable(o) ==
    /\ o.kind = "raised"
    /\ \/ o.err = "UpstreamApiError"
       \/ o.err = "LocationResolutionError" /\ o.cause = "UpstreamApiError"
    /\ o.response = NoResponse

\* C16: every get makes one HTTP attempt; an exchange that ends in a
\* transport failure or a status of 400 or more makes the get fail with
\* UpstreamApiError; a failed search GET ends the invocation with
\* UpstreamApiError, no response and no further call.
C16_OneAttemptNoRetry ==
    [][ /\ http_attempts' = Len(calls')
        /\ Len(calls') <= Len(replies') + 1
        /\ \A h \in SearchHttp(op) :
              (SearchReturn(h) /\ Failing(h))
                  => /\ outcome'.kind = "raised" /\ outcome'.err = "UpstreamApiError"
                     /\ outcome'.response = NoResponse
                     /\ pc' = "done" /\ calls' = calls
        /\ \A h \in LocationHttp :
              ((OriginReturn(get(h)) \/ DestReturn(get(h))) /\ Failing(h))
                  => UpstreamUnavailable(outcome') /\ pc' = "done" /\ calls' = calls
        /\ pc = "done" => calls' = calls ]_vars

\* C16's case: the ids were resolved by two GETs, then the search GET failed.
C16_Witness ==
    /\ pc = "done" /\ op \in SearchOps
    /\ outcome.err = "UpstreamApiError" /\ outcome.stage = "search"
    /\ Len(calls) = 3 /\ http_attempts = 3
    /\ replies = <<"ok", "ok", "fail">>

\* The ids the resolution of the terms gave
ResolvedIds ==
    [from_id |-> SuggestedId(BestOf(CandidatesOf(origin_ac))),
     to_id   |-> SuggestedId(BestOf(CandidatesOf(dest_ac)))]

\* C17: a response of a search operation carries as resolved_from_id and
\* resolved_to_id the fromId and toId of the invocation's search query, which
\* are the supplied ids, or the ids the resolution of the terms gave.
C17_ResolvedIdsAreSentIds ==
    (op \in SearchOps /\ outcome.kind = "returned")
        => /\ calls # <<>>
           /\ calls[Len(calls)].endpoint = EndpointOf(op)
           /\ outcome.response.resolved_from_id = calls[Len(calls)].fromId
           /\ outcome.response.resolved_to_id = calls[Len(calls)].toId
           /\ \/ /\ calls[Len(calls)].fromId = params.from_id
                 /\ calls[Len(calls)].toId = params.to_id
                 /\ resolve_calls = 0
              \/ /\ calls[Len(calls)].fromId = ResolvedIds.from_id
                 /\ calls[Len(calls)].toId = ResolvedIds.to_id
                 /\ resolve_calls = 1

\* C17's case: one id was supplied and the terms were resolved all the same.
C17_Witness ==
    /\ op \in SearchOps /\ outcome.kind = "returned"
    /\ params.from_id = PyInt(1) /\ params.to_id = PyNone
    /\ resolve_calls = 1
    /\ outcome.response.resolved_from_id = PyInt(7)
    /\ outcome.response.resolved_to_id = PyInt(5)

\* The caller got what the handler gave: its result, or the envelope of its
\* own exception
HandlersOutcome ==
    /\ tool_outcome.kind = "returned"
    /\ handler.kind = "returns"
          => tool_outcome.result = handler.result /\ tool_outcome.error = NoExc
    /\ handler.kind = "raises"
          => tool_outcome.result = NoResult /\ tool_outcome.error = handler.exc

\* C14: whether or not the metrics sink fails to record, the caller gets the
\* handler's result when the handler returned and the envelope of the
\* handler's own error when it raised; the sink's failure never reaches the
\* caller.
C14_SinkFailureChangesNothing ==
    t_pc = "done" => HandlersOutcome

\* What holds of the code: a refused insert shows in what the caller gets.  The
\* sink's exception leaves the wrapper when the insert of the failure record
\* is refused; when the insert of the success record is refused and the next
\* one is stored, the caller gets the envelope of the sink's exception.
C14_RefusedInsertReachesCaller ==
    (t_pc = "done" /\ sink.refused > 0)
        => \/ tool_outcome = ToolRaised(SinkError)
           \/ /\ handler.kind = "returns" /\ sink.refused = 1
              /\ tool_outcome = Envelope(SinkError)
              /\ metrics = <<FailureRecord(handler.tool, SinkError)>>

\* C15: with a working metrics sink an invocation ends with exactly one
\* metrics record, of status success when the handler returned and of status
\* failure, with the handler's error, when it raised; the caller then gets
\* the handler's result, or the envelope of the handler's exception and no
\* exception.
C15_OneRecordAndEnvelope ==
    /\ Len(metrics) <= 1
    /\ (t_pc = "done" /\ sink.refused = 0)
          => /\ Len(metrics) = 1
             /\ metrics[1].tool_name = handler.tool
             /\ handler.kind = "returns"
                   => /\ metrics[1].status = "success"
                      /\ metrics[1].error = NoExc
                      /\ tool_outcome.kind = "returned"
                      /\ tool_outcome.result = handler.result
                      /\ tool_outcome.error = NoExc
             /\ handler.kind = "raises"
                   => /\ metrics[1].status = "failure"
                      /\ metrics[1].error = handler.exc
                      /\ tool_outcome.kind = "returned"
                      /\ tool_outcome.result = NoResult
                      /\ tool_outcome.error = handler.exc

\* C15's case: the handler raised, the sink stored the failure record and the
\* caller got the envelope.
C15_Witness ==
    /\ t_pc = "done" /\ sink.refused = 0
    /\ handler.kind = "raises" /\ handler.exc.type = "UpstreamApiError"
    /\ Len(metrics) = 1 /\ metrics[1].status = "failure"
    /\ tool_outcome.kind = "returned" /\ tool_outcome.error.type = "UpstreamApiError"

StringifiedMatches(raw, refs) ==
    LET Named(sid) == \E j \in 1..Len(raw.segments) :
                          py_str(sid) = py_str(PyGet(raw.segments[j].id))
    IN  [i \in 1..Len(SelectSeq(refs, Named)) |-> py_str(SelectSeq(refs, Named)[i])]

\* The itinerary of schedule n is derived from the given resolved segments
DerivedFrom(r, n, sched, segs) ==
    Sortable(segs)
        => LET one == ShapeSegments(raw_data, sched, segs)
           IN  one.made
                 => \E k \in 1..Len(r.results) :
                       r.from_index[k] = n /\ r.results[k] = one.itinerary

\* A schedule whose references are a list of ids
ListsIds(sched) ==
    /\ IsDict(sched)
    /\ sched.segmentIDs.t = "list"
    /\ \A i \in 1..Len(sched.segmentIDs.cs) : sched.segmentIDs.cs[i].t \in {"int", "text"}

\* C21: the segment table is keyed by stringified id; every reference of a
\* schedule whose stringified form is the stringified id of a segment is
\* resolved, and the itinerary's mode, time zones, positions, carrier and
\* departure/arrival come from the resolved segment with the smallest
\* departureDateTime (a missing one sorting first).
C21_StringifiedReferencesResolved ==
    (shape_result.status = "done" /\ TablesAreDicts(raw_data))
        => \A n \in 1..Len(ClaimedSchedules) :
              ListsIds(ClaimedSchedules[n])
                => DerivedFrom(shape_result, n, ClaimedSchedules[n],
                               segments_data(segments_map(raw_data),
                                             StringifiedMatches(raw_data,
                                                 ClaimedSchedules[n].segmentIDs.cs)))

\* What holds of C21: the same for the schedules whose references are strings
C21_StringReferencesResolved ==
    (shape_result.status = "done" /\ TablesAreDicts(raw_data))
        => \A n \in 1..Len(ClaimedSchedules) :
              ( /\ ListsIds(ClaimedSchedules[n])
                /\ \A i \in 1..Len(ClaimedSchedules[n].segmentIDs.cs) :
                      ClaimedSchedules[n].segmentIDs.cs[i].t = "text" )
                => DerivedFrom(shape_result, n, ClaimedSchedules[n],
                               segments_data(segments_map(raw_data),
                                             StringifiedMatches(raw_data,
                                                 ClaimedSchedules[n].segmentIDs.cs)))

\* C21's case: string references "1" and "2" resolved to the segments with
\* ids "1" and 2, the itinerary taken from the one that leaves first
C21_Witness ==
    /\ shape_result.status = "done" /\ shape_result.raised = ""
    /\ raw_data.outboundSchedules = PyList(<<SchedRefs>>)
    /\ Len(raw_data.segments) = 3
    /\ \E k \in 1..Len(shape_result.results) :
          shape_result.results[k]
              = ShapeSegments(raw_data, SchedRefs, <<SegOne, SegTwo>>).itinerary


\* The prices of a calendar payload (none when the key is missing or null)
PricesOf(data) == IF Truthy(data.prices) THEN data.prices.cs ELSE <<>>

\* The entries C22 takes as kept: those with a date and a priceCents
KeptDays(data) ==
    LET Kept(day) == PyGet(day.date).t # "none" /\ PyGet(day.priceCents).t # "none"
    IN  SelectSeq(PricesOf(data), Kept)

KeptCents(data) == { KeptDays(data)[i].priceCents.n : i \in 1..Len(KeptDays(data)) }

MinOf(S) == CHOOSE x \in S : \A y \in S : x <= y

MaxOf(S) == CHOOSE x \in S : \A y \in S : x >= y

\* A calendar payload whose prices are records with integer priceCents
CalendarWellFormed(data) ==
    /\ data.prices.t \in {"absent", "none", "list"}
    /\ \A i \in 1..Len(PricesOf(data)) :
          /\ IsDict(PricesOf(data)[i])
          /\ PricesOf(data)[i].priceCents.t \in {"absent", "none", "int"}

\* What C22 says of one call: no failure, the count of the kept entries, no
\* price made up for a skipped entry, min and max over the kept entries
CalendarAsClaimed(data, out) ==
    /\ out.raised = ""
    /\ out.count = Len(KeptDays(data))
    /\ Len(out.calendar) = Len(KeptDays(data))
    /\ \A i \in 1..Len(out.calendar) :
          /\ out.calendar[i].date = KeptDays(data)[i].date
          /\ out.calendar[i].priceCents = PyFloat(KeptDays(data)[i].priceCents.n)
    /\ KeptDays(data) # <<>>
          => /\ out.stats.min_price = PyCents(MinOf(KeptCents(data)))
             /\ out.stats.max_price = PyCents(MaxOf(KeptCents(data)))

CalendarCalls ==
    { i \in 1..Len(rep_out) : rep_fn = "normalize_calendar_day_results"
                              /\ CalendarWellFormed(rep_raw.given) }

\* C22: for every prices list normalize_calendar_day_results returns without
\* failing; entries lacking date or priceCents are skipped and never become
\* a zero price, the count is the number of kept entries (zero when all are
\* skipped), and min and max are the least and greatest kept priceCents
\* divided by 100.
C22_CalendarNeverFails ==
    \A i \in CalendarCalls : CalendarAsClaimed(rep_raw.given, rep_out[i])

\* What holds of C22: the same when some entry is kept and the least kept
\* price is not 0 cents
C22_CalendarWithPositivePrices ==
    \A i \in CalendarCalls :
        (KeptDays(rep_raw.given) # <<>> /\ MinOf(KeptCents(rep_raw.given)) > 0)
            => CalendarAsClaimed(rep_raw.given, rep_out[i])

\* C22's case: one entry skipped for its missing date, one kept
C22_Witness ==
    /\ rep_fn = "normalize_calendar_day_results"
    /\ Len(rep_out) >= 1
    /\ Len(PricesOf(rep_raw.given)) = 2
    /\ Len(KeptDays(rep_raw.given)) = 1
    /\ rep_out[1].raised = ""
    /\ rep_out[1].count = 1


CalendarGenericNote ==
    Note("Prices represent the lowest available fares within selected period.",
         <<>>, <<>>)

\* The search GET of search_calendar_prices is answered with payload data,
\* whose kept entries have string dates and whose least kept price is 0 cents
ZeroMinimumReply(h) ==
    /\ op = "search_calendar_prices"
    /\ SearchReturn(h) /\ ~Failing(h)
    /\ CalendarWellFormed(h.body.payload)
    /\ KeptDays(h.body.payload) # <<>>
    /\ \A i \in 1..Len(KeptDays(h.body.payload)) :
          IsPyStr(KeptDays(h.body.payload)[i].date)
    /\ h.body.payload.currency.t \in {"absent", "str"}
    /\ MinOf(KeptCents(h.body.payload)) = 0

\* C23: when the lowest kept calendar price is 0 cents search_calendar_prices
\* still returns a response with the calendar days and the generic note; the
\* note of a response has a price range exactly when min and max are both
\* non-zero.
C23_ZeroMinimumStillReturns ==
    [][ \A h \in SearchHttp(op) :
          /\ ZeroMinimumReply(h)
                => /\ outcome'.kind = "returned"
                   /\ Len(outcome'.response.calendar) = Len(KeptDays(h.body.payload))
                   /\ outcome'.response.note = CalendarGenericNote
          /\ ( /\ op = "search_calendar_prices" /\ SearchReturn(h) /\ ~Failing(h)
               /\ CalendarWellFormed(h.body.payload)
               /\ outcome'.kind = "returned" )
                => ( outcome'.response.note # CalendarGenericNote
                       <=> /\ KeptDays(h.body.payload) # <<>>
                           /\ MinOf(KeptCents(h.body.payload)) # 0
                           /\ MaxOf(KeptCents(h.body.payload)) # 0 ) ]_vars

\* What holds of C23: with a lowest kept price of 0 cents the operation
\* raises TypeError from the normaliser and returns no response; the note of
\* a response that is returned has a price range exactly when min and max
\* are non-zero.
C23_ZeroMinimumRaises ==
    [][ \A h \in SearchHttp(op) :
          /\ ZeroMinimumReply(h)
                => /\ outcome'.kind = "raised" /\ outcome'.err = "TypeError"
                   /\ outcome'.response = NoResponse
          /\ ( /\ op = "search_calendar_prices" /\ SearchReturn(h) /\ ~Failing(h)
               /\ CalendarWellFormed(h.body.payload)
               /\ outcome'.kind = "returned" )
                => ( outcome'.response.note # CalendarGenericNote
                       <=> /\ KeptDays(h.body.payload) # <<>>
                           /\ MinOf(KeptCents(h.body.payload)) # 0
                           /\ MaxOf(KeptCents(h.body.payload)) # 0 ) ]_vars


\* The dates of a cheapest-summary payload (none when "data" is missing or null)
DatesOf(data) == IF data.data.t \in {"absent", "none"} THEN <<>> ELSE data.data.items

\* A payload whose dates hold mappings of modes to records with integer
\* priceCents and numberOfResults
CheapestWellFormed(data) ==
    \A i \in 1..Len(DatesOf(data)) :
        /\ IsDict(DatesOf(data)[i].value)
        /\ \A j \in 1..Len(DatesOf(data)[i].value.items) :
              /\ IsDict(DatesOf(data)[i].value.items[j].value)
              /\ DatesOf(data)[i].value.items[j].value.priceCents.t = "int"
              /\ DatesOf(data)[i].value.items[j].value.numberOfResults.t = "int"

\* The entries of one date that C24 takes as kept: neither priceCents nor
\* numberOfResults is 0
KeptModes(date) ==
    LET Kept(e) == e.value.priceCents.n # 0 /\ e.value.numberOfResults.n # 0
    IN  SelectSeq(date.value.items, Kept)

\* The dates with at least one kept entry
KeptDates(data) ==
    LET Has(date) == KeptModes(date) # <<>>
    IN  SelectSeq(DatesOf(data), Has)

\* The (date, modes) of a summary
SummaryKeys(summary) ==
    [i \in 1..Len(summary) |->
        Pair(summary[i].key, [j \in 1..Len(summary[i].value) |-> summary[i].value[j].key])]

ClaimedKeys(data) ==
    [i \in 1..Len(KeptDates(data)) |->
        Pair(KeptDates(data)[i].key,
             [j \in 1..Len(KeptModes(KeptDates(data)[i])) |->
                 KeptModes(KeptDates(data)[i])[j].key])]

NoDataInsight ==
    Note("No pricing data available for the selected date range and routes.",
         <<>>, <<>>)

\* The search GET of search_cheapest_summary is answered with a well-formed
\* payload
CheapestReply(h) ==
    /\ op = "search_cheapest_summary"
    /\ SearchReturn(h) /\ ~Failing(h)
    /\ CheapestWellFormed(h.body.payload)

\* C24: an entry of the cheapest summary is skipped exactly when its
\* priceCents or its numberOfResults is 0, and skipping is no error: when all
\* entries of a non-empty mapping are skipped the normaliser returns an empty
\* summary and search_cheapest_summary returns the "no data" insight.
C24_SkippingIsNoError ==
    [][ \A h \in SearchHttp(op) :
          CheapestReply(h)
            => /\ normalize_cheapest_summary_results(h.body.payload, DefaultCurrency).raised = ""
               /\ SummaryKeys(normalize_cheapest_summary_results(h.body.payload,
                                                                 DefaultCurrency).summary)
                     = ClaimedKeys(h.body.payload)
               /\ (DatesOf(h.body.payload) # <<>> /\ KeptDates(h.body.payload) = <<>>)
                     => /\ outcome'.kind = "returned"
                        /\ outcome'.response.summary = <<>>
                        /\ outcome'.response.insight = NoDataInsight ]_vars

\* What holds of C24: the summary has exactly the entries that are not
\* skipped when some entry is kept; when every entry of a non-empty mapping is
\* skipped the normaliser and the operation raise TypeError.
C24_AllSkippedRaises ==
    [][ \A h \in SearchHttp(op) :
          CheapestReply(h)
            => /\ KeptDates(h.body.payload) # <<>>
                     => /\ normalize_cheapest_summary_results(h.body.payload,
                                                              DefaultCurrency).raised = ""
                        /\ SummaryKeys(normalize_cheapest_summary_results(h.body.payload,
                                                              DefaultCurrency).summary)
                              = ClaimedKeys(h.body.payload)
               /\ (DatesOf(h.body.payload) # <<>> /\ KeptDates(h.body.payload) = <<>>)
                     => /\ outcome'.kind = "raised" /\ outcome'.err = "TypeError"
                        /\ outcome'.response = NoResponse ]_vars


\* All kept entries of a payload, in upstream order, each with its date
RECURSIVE KeptPairsUpTo(_, _)
KeptPairsUpTo(data, n) ==
    IF n = 0 THEN <<>>
    ELSE KeptPairsUpTo(data, n - 1)
            \o [j \in 1..Len(KeptModes(KeptDates(data)[n])) |->
                   [date  |-> KeptDates(data)[n].key,
                    mode  |-> KeptModes(KeptDates(data)[n])[j].key,
                    cents |-> KeptModes(KeptDates(data)[n])[j].value.priceCents.n,
                    results |-> KeptModes(KeptDates(data)[n])[j].value.numberOfResults.n]]

KeptPairs(data) == KeptPairsUpTo(data, Len(KeptDates(data)))

RECURSIVE SumResults(_)
SumResults(pairs) ==
    IF pairs = <<>> THEN 0 ELSE Head(pairs).results + SumResults(Tail(pairs))

\* The calls of normalize_cheapest_summary_results on a well-formed payload
\* that returned
CheapestCalls ==
    { i \in 1..Len(rep_out) : /\ rep_fn = "normalize_cheapest_summary_results"
                              /\ CheapestWellFormed(rep_raw.given)
                              /\ DatesOf(rep_raw.given) # <<>>
                              /\ rep_out[i].raised = "" }

\* C25: in the stats of normalize_cheapest_summary_results total_dates is the
\* number of dates with at least one kept entry (the dates of the summary),
\* total_modes the number of kept (date, mode) pairs and total_results the
\* sum of numberOfResults over the kept pairs.
C25_TotalsCountKeptData ==
    \A i \in CheapestCalls :
        /\ rep_out[i].stats.total_dates = Len(KeptDates(rep_raw.given))
        /\ rep_out[i].stats.total_dates = Len(rep_out[i].summary)
        /\ rep_out[i].stats.total_modes = Len(KeptPairs(rep_raw.given))
        /\ rep_out[i].stats.total_results = SumResults(KeptPairs(rep_raw.given))

\* What holds of C25: total_modes and total_results are as claimed;
\* total_dates is the number of dates of the payload, those without a kept
\* entry included.
C25_TotalDatesCountsEveryDate ==
    \A i \in CheapestCalls :
        /\ rep_out[i].stats.total_dates = Len(DatesOf(rep_raw.given))
        /\ rep_out[i].stats.total_modes = Len(KeptPairs(rep_raw.given))
        /\ rep_out[i].stats.total_results = SumResults(KeptPairs(rep_raw.given))

\* C25's case: three dates, one of them with no kept entry
C25_Witness ==
    /\ rep_fn = "normalize_cheapest_summary_results"
    /\ Len(rep_out) >= 1 /\ rep_out[1].raised = ""
    /\ Len(DatesOf(rep_raw.given)) = 3
    /\ Len(rep_out[1].summary) = 2
    /\ rep_out[1].stats.total_modes = 3
    /\ rep_out[1].stats.total_results = 6


CentsOf(pairs) == { pairs[k].cents : k \in 1..Len(pairs) }

\* The first pair, in upstream order, with the least price
FirstCheapest(pairs) ==
    pairs[CHOOSE k \in 1..Len(pairs) :
             /\ pairs[k].cents = MinOf(CentsOf(pairs))
             /\ \A j \in 1..(k - 1) : pairs[j].cents # MinOf(CentsOf(pairs))]

\* The kept pairs of one mode
PairsOfMode(pairs, mode) ==
    LET Is(p) == p.mode = mode
    IN  SelectSeq(pairs, Is)

\* What C26 says of the stats of one call, pairs being the kept pairs
ExtremesAsClaimed(stats, pairs) ==
    /\ stats.min_price_overall = PyCents(MinOf(CentsOf(pairs)))
    /\ stats.max_price_overall = PyCents(MaxOf(CentsOf(pairs)))
    /\ stats.cheapest_date = PyStr(FirstCheapest(pairs).date)
    /\ stats.cheapest_mode = PyStr(FirstCheapest(pairs).mode)
    /\ { stats.by_mode[m].key : m \in 1..Len(stats.by_mode) }
          = { pairs[k].mode : k \in 1..Len(pairs) }
    /\ \A m \in 1..Len(stats.by_mode) :
          /\ stats.by_mode[m].value.min_price
                = PyCents(MinOf(CentsOf(PairsOfMode(pairs, stats.by_mode[m].key))))
          /\ stats.by_mode[m].value.max_price
                = PyCents(MaxOf(CentsOf(PairsOfMode(pairs, stats.by_mode[m].key))))
          /\ stats.min_price_overall.n <= stats.by_mode[m].value.min_price.n
          /\ stats.by_mode[m].value.min_price.n <= stats.by_mode[m].value.max_price.n
          /\ stats.by_mode[m].value.max_price.n <= stats.max_price_overall.n

\* C26: when some entry is kept, min_price_overall and max_price_overall are
\* the least and greatest price of the kept pairs, (cheapest_date,
\* cheapest_mode) is the first kept pair with the least price, and each
\* mode's min_price and max_price are the extremes of that mode's kept pairs,
\* between the global ones.
C26_ExtremesOverKeptPairs ==
    \A i \in 1..Len(rep_out) :
        ( /\ rep_fn = "normalize_cheapest_summary_results"
          /\ CheapestWellFormed(rep_raw.given)
          /\ KeptPairs(rep_raw.given) # <<>> )
            => /\ rep_out[i].raised = ""
               /\ ExtremesAsClaimed(rep_out[i].stats, KeptPairs(rep_raw.given))

\* C26's case: (d1, bus) and (d3, train) tie for the least price, 4.00, and
\* the first one is reported
C26_Witness ==
    /\ rep_fn = "normalize_cheapest_summary_results"
    /\ Len(rep_out) >= 1 /\ rep_out[1].raised = ""
    /\ Len(KeptPairs(rep_raw.given)) = 3
    /\ rep_out[1].stats.min_price_overall = PyCents(400)
    /\ rep_out[1].stats.max_price_overall = PyCents(900)
    /\ rep_out[1].stats.cheapest_date = PyStr("d1")
    /\ rep_out[1].stats.cheapest_mode = PyStr("bus")
    /\ MapGet(rep_out[1].stats.by_mode, "train", NoModeStats).min_price = PyCents(400)


\* A fastest-summary payload whose dates hold mappings of modes to records
\* with an integer numberOfResults and cheapest and fastest records whose
\* priceCents, where present, are integers
FastestWellFormed(data) ==
    \A i \in 1..Len(DatesOf(data)) :
        /\ IsDict(DatesOf(data)[i].value)
        /\ \A j \in 1..Len(DatesOf(data)[i].value.items) :
              LET info == DatesOf(data)[i].value.items[j].value
              IN  /\ IsDict(info)
                  /\ info.numberOfResults.t = "int"
                  /\ IsDict(info.cheapest) /\ IsDict(info.fastest)
                  /\ info.cheapest.priceCents.t \in {"absent", "int"}
                  /\ info.fastest.priceCents.t \in {"absent", "int"}

\* The priceCents of a side, 0 when the key is missing
SideCents(side) == PyGetOr(side.priceCents, PyInt(0)).n

\* The entries of one date that C27 takes as kept
FastestKeptModes(date) ==
    LET Kept(e) == /\ e.value.numberOfResults.n # 0
                   /\ ~(SideCents(e.value.cheapest) = 0 /\ SideCents(e.value.fastest) = 0)
    IN  SelectSeq(date.value.items, Kept)

FastestKeptDates(data) ==
    LET Has(date) == FastestKeptModes(date) # <<>>
    IN  SelectSeq(DatesOf(data), Has)

\* The prices C27 gives for a kept entry
ClaimedPrices(e) ==
    [cheapest_price |-> IF SideCents(e.value.cheapest) > 0
                        THEN PyCents(SideCents(e.value.cheapest)) ELSE PyNone,
     fastest_price  |-> IF SideCents(e.value.fastest) > 0
                        THEN PyCents(SideCents(e.value.fastest)) ELSE PyFloat(0)]

\* The summary has the kept dates with their kept modes, priced as claimed
FastestAsClaimed(data, summary) ==
    /\ Len(summary) = Len(FastestKeptDates(data))
    /\ \A i \in 1..Len(summary) :
          /\ summary[i].key = FastestKeptDates(data)[i].key
          /\ Len(summary[i].value) = Len(FastestKeptModes(FastestKeptDates(data)[i]))
          /\ summary[i].value # <<>>
          /\ \A j \in 1..Len(summary[i].value) :
                LET e == FastestKeptModes(FastestKeptDates(data)[i])[j]
                IN  /\ summary[i].value[j].key = e.key
                    /\ summary[i].value[j].value.cheapest_price
                          = ClaimedPrices(e).cheapest_price
                    /\ summary[i].value[j].value.fastest_price
                          = ClaimedPrices(e).fastest_price
                    /\ summary[i].value[j].value.fastest_price.t # "none"

\* C27: normalize_fastest_summary_results keeps an entry exactly when its
\* numberOfResults is non-zero and its cheapest and fastest priceCents are
\* not both zero; cheapest_price is cents/100 for positive cents and null
\* otherwise, fastest_price is cents/100 for positive cents and 0 otherwise;
\* a date is in the summary only if one of its modes is kept.
C27_FastestKeepsAndPrices ==
    \A i \in 1..Len(rep_out) :
        ( /\ rep_fn = "normalize_fastest_summary_results"
          /\ FastestWellFormed(rep_raw.given) )
            => /\ rep_out[i].raised = ""
               /\ FastestAsClaimed(rep_raw.given, rep_out[i].summary)

\* C27's case: of two dates one has no kept mode; the other has a mode
\* without results next to a kept one
C27_Witness ==
    /\ rep_fn = "normalize_fastest_summary_results"
    /\ Len(rep_out) >= 1 /\ rep_out[1].raised = ""
    /\ Len(DatesOf(rep_raw.given)) = 2
    /\ Len(rep_out[1].summary) = 1
    /\ Len(rep_out[1].summary[1].value) = 1
    /\ rep_out[1].summary[1].value[1].value.cheapest_price = PyCents(500)
    /\ rep_out[1].summary[1].value[1].value.fastest_price = PyCents(700)

\* C27 again: kept entries with no positive price on one side: the cheapest
\* price is null, the fastest price is 0
C27_WitnessDefaults ==
    /\ rep_fn = "normalize_fastest_summary_results"
    /\ Len(rep_out) >= 1 /\ rep_out[1].raised = ""
    /\ Len(rep_out[1].summary) = 1
    /\ Len(rep_out[1].summary[1].value) = 2
    /\ rep_out[1].summary[1].value[1].value.cheapest_price = PyNone
    /\ rep_out[1].summary[1].value[2].value.fastest_price = PyFloat(0)


\* C28: after shutdown_clients completes both singleton clients, the one of
\* the location lookups and the one of the searches, have been closed,
\* whatever tool invocations were served before.
C28_BothClientsClosed ==
    s_pc = "done" => client_instance.closed /\ discovery_client.closed

\* What holds of C28: shutdown_clients completes with both clients still
\* open, each of its two try blocks having swallowed a TypeError.
C28_ClientsLeftOpen ==
    s_pc = "done"
        => /\ client_instance.made /\ ~client_instance.closed
           /\ discovery_client.made /\ ~discovery_client.closed
           /\ swallowed = <<"TypeError", "TypeError">>

\* C28's case: shutdown_clients has completed after two tool invocations that
\* used both clients
C28_Witness ==
    /\ s_pc = "done"
    /\ served = 2
    /\ client_instance.requests = 4
    /\ discovery_client.requests = 2


\* C29: on each side of resolve_positions the best_match, chosen by the
\* location-preference rule over [best_guess] + alternatives, is the
\* best_guess autocomplete returned for that side, both null together: the
\* second selection never changes the choice.
C29_SecondSelectionKeepsBestGuess ==
    ResolveResponded
        => /\ outcome.resolved.origin.best_match = origin_ac.best_guess
           /\ outcome.resolved.destination.best_match = dest_ac.best_guess
           /\ BestOf(CandidatesOf(origin_ac)) = origin_ac.best_guess
           /\ BestOf(CandidatesOf(dest_ac)) = dest_ac.best_guess

\* C29's case: the origin's best guess is a location that was not the first
\* candidate and has an alternative; the destination has no candidate at all
C29_Witness ==
    /\ ResolveResponded /\ op = "resolve"
    /\ origin_ac.best_guess.some
    /\ origin_ac.candidates[1] # origin_ac.best_guess.pos
    /\ origin_ac.alternatives # <<>>
    /\ outcome.resolved.origin.best_match = origin_ac.best_guess
    /\ ~dest_ac.best_guess.some
    /\ ~outcome.resolved.destination.best_match.some


\* The search operation has sent a GET to its search endpoint
SearchEndpointCalled ==
    \E i \in 1..Len(calls) : calls[i].endpoint = EndpointOf(op)

\* A failure during the resolution of the terms: an autocomplete GET failed,
\* a term was rejected by validation, or a resolved id is missing
ResolutionFailed ==
    \/ \E i \in 1..Len(replies) :
          replies[i] = "fail" /\ calls[i].endpoint = "POSITION_ENDPOINT"
    \/ validate_resolve_params(params.from_term.cs, params.to_term.cs) # ""
    \/ validate_autocomplete_params(params.from_term.cs) # ""
    \/ pc # "origin_wait" /\ validate_autocomplete_params(params.to_term.cs) # ""
    \/ /\ Len(replies) >= 2 /\ replies[1] = "ok" /\ replies[2] = "ok"
       /\ ~Truthy(ResolvedIds.from_id) \/ ~Truthy(ResolvedIds.to_id)

====
